---- MODULE Spec2Model ----
(***************************************************************************)
(* A model of the answer-generation pipeline of repo-analyst               *)
(* (src/core/rag.py, src/core/judge.py): the LangGraph state machine       *)
(* embed_query -> retrieve_chunks -> build_context -> generate_answer ->   *)
(* [judge_answer -> {prepare_retry -> build_context | finalize_answer}] -> *)
(* validate_answer -> END, and RAGPipeline.query around it; and of the     *)
(* indexing run (src/core/indexer.py) that writes the files the pipeline   *)
(* is constructed from.                                                    *)
(*                                                                         *)
(* Text is a sequence of tokens (strings); concatenation of text is \o.    *)
(* The empty text "" is << >>, Python's None is the one-token text None.   *)
(* Similarity scores and min_score are in tenths (0.3 is 3).               *)
(***************************************************************************)
EXTENDS Integers, Sequences, FiniteSets, TLC

VARIABLES
    cfg,                   \* the loaded configuration (config.yaml)
    chunks,                \* RAGPipeline.chunks, the loaded evidence repository
    conversation_history,  \* RAGPipeline.conversation_history (session)
    pc,                    \* the graph node about to run; "idle" between queries
    state,                 \* the RAGState of the query in flight
    returned,              \* what the last completed query() returned
    calls,                 \* external-service invocations made by the query in flight
    gen_failed,            \* a generation call of the query in flight raised
    judge_failed,          \* the last judge evaluation of the query raised
    all_low,               \* every judge_answer step of the query so far set a score <= 2
    judge_unparsed,        \* the last judge response had neither a usable score field
                           \* nor a match of the free-text score pattern
    snapshot,              \* the list a caller holds from get_history()
    trace,                 \* the graph nodes the query in flight has run, in order
    search_hits,           \* the hits the index holds for the question, in the
                           \* specifications that fix them; << >> otherwise
    indexer,               \* the DocumentIndexer of `app.py index`: its chunks,
                           \* its embeddings and the step it is at
    disk,                  \* the index file and the metadata file
    index,                 \* RAGPipeline.index, the vectors read from the index file
    script,                \* what the language model and the judge model do at
                           \* each attempt, in the specifications that fix it
    cleared_at,            \* the number of queries started when clear_history was
                           \* last called, in the specifications that note it;
                           \* -1 when it was never called or is not noted
    nqueries               \* queries started in this session

vars == <<cfg, chunks, conversation_history, pc, state, returned, calls,
          gen_failed, judge_failed, all_low, judge_unparsed, snapshot, trace,
          search_hits, indexer, disk, index, script, cleared_at, nqueries>>

----------------------------------------------------------------------------
(* Bounds of the model *)

MaxRetriesBound == 2
MaxQueries == 2
TopK == 2

----------------------------------------------------------------------------
(* Python values *)

None == <<"None">>

\* Python truthiness of an Optional[str]: None and "" are falsy.
Truthy(s) == s # None /\ s # << >>

NoScore == << >>

\* the positions at which a token occurs in a text
Positions(tok, text) == { i \in 1..Len(text) : text[i] = tok }

Min(a, b) == IF a <= b THEN a ELSE b
Max(a, b) == IF a >= b THEN a ELSE b

----------------------------------------------------------------------------
(* Fixed texts of the program *)

CannotHelpMessage == <<"I cannot provide a reliable answer to this query ...">>

MediumConfidenceMessage == <<"\n\n[Note: Low confidence in this answer. ...]">>

LowConfidenceMessage == <<"\n\n[Warning: Very low confidence in this answer. ...]">>

\* The generated answers the language model may return: one with a
\* file:line citation and 120 characters, one of 30 characters with neither
\* a citation nor an uncertainty phrase.
GenAnswers == { <<"ans_cited">>, <<"ans_plain">> }

\* Every kind of answer the validator tells apart: also the empty answer, a
\* cited one of 20 characters, one of 60 characters with an uncertainty phrase
\* and no citation, and one of 150 characters with neither.
AllGenAnswers ==
    GenAnswers \cup { << >>, <<"ans_cited_short">>, <<"ans_hedge">>, <<"ans_long_plain">> }

\* str(e) of the exceptions an external call may raise: str(Exception()) is "".
ExcMsgs == { << >>, <<"boom">> }

\* The questions of a session are pairwise different texts: the n-th is "q<n>".
QueryText(n) == "q" \o ToString(n)

\* len() of a token that can occur in an answer reaching validation.
TokLen(tok) ==
    CASE tok = "ans_cited" -> 120
      [] tok = "ans_plain" -> 30
      [] tok = "ans_hedge" -> 60
      [] tok = "ans_cited_short" -> 20
      [] tok = "ans_long_plain" -> 150
      [] tok = "boom" -> 4
      [] tok = "Error generating answer: " -> 25
      [] tok = CannotHelpMessage[1] -> 265
      [] tok = MediumConfidenceMessage[1] -> 142
      [] tok = LowConfidenceMessage[1] -> 113

\* len(text)
RECURSIVE TextLen(_)
TextLen(text) ==
    IF text = << >> THEN 0 ELSE TokLen(Head(text)) + TextLen(Tail(text))

\* re.findall(citation_pattern, answer) is non-empty
HasCitation(text) == \E i \in 1..Len(text) : text[i] \in {"ans_cited", "ans_cited_short"}

\* any uncertainty phrase occurs in answer.lower()
HasHedge(text) == \E i \in 1..Len(text) : text[i] = "ans_hedge"

----------------------------------------------------------------------------
(* Configuration *)

\* (high, medium) confidence thresholds: the defaults, thresholds above the
\* score judge_answer substitutes when it is skipped, and low thresholds.
ThresholdConfigs == { <<5, 3>>, <<6, 4>>, <<6, 6>>, <<2, 1>> }

Configs ==
    { [judge_enabled |-> je, max_retries |-> mr, high |-> th[1], medium |-> th[2],
       top_k |-> TopK, min_score |-> 3,
       enable_history |-> TRUE, max_history_turns |-> 5,
       require_citations |-> TRUE, min_answer_length |-> 50,
       check_grounding |-> TRUE] :
      je \in BOOLEAN, mr \in 0..MaxRetriesBound, th \in ThresholdConfigs }

\* With judging disabled no judge option is read.
SpecConfigs ==
    { c \in Configs : ~c.judge_enabled => (c.max_retries = 0 /\ c.high = 5) }

----------------------------------------------------------------------------
(* Evidence repository and vector search *)

Repository ==
    << [keys |-> {"text", "file_path", "start_line", "end_line", "type"},
        text |-> "chunk0", file_path |-> "pkg/a.py", start_line |-> 1, end_line |-> 9],
       [keys |-> {"text", "file_path", "start_line", "end_line", "type"},
        text |-> "chunk1", file_path |-> "pkg/b.py", start_line |-> 10, end_line |-> 20],
       [keys |-> {"file_path", "start_line", "end_line", "type"},
        text |-> "", file_path |-> "pkg/c.py", start_line |-> 3, end_line |-> 4] >>

\* FAISS pads a result that has fewer than k hits with index -1 and the
\* lowest score.
MissingHit == [idx |-> -1, score |-> -1000]

HitScores == {2, 4}

\* Index Len(Repository) is past the end of the loaded chunk list.
Hits == { [idx |-> i, score |-> s] : i \in 0..Len(Repository), s \in HitScores }
        \cup {MissingHit}

\* What index.search(query_embedding, k) may return: k hits, best first,
\* distinct indices, padding last.
SearchResults(k) ==
    { r \in [1..k -> Hits] :
        /\ \A i \in 1..(k-1) : r[i].score >= r[i+1].score
        /\ \A i \in 1..(k-1) : r[i] = MissingHit => r[i+1] = MissingHit
        /\ \A i, j \in 1..k : (i # j /\ r[i].idx = r[j].idx) => r[i] = MissingHit }

\* self.chunks[idx] with Python indexing (a negative idx counts from the end)
ChunkAt(repo, idx) == IF idx >= 0 THEN repo[idx + 1] ELSE repo[Len(repo) + idx + 1]

\* chunk = self.chunks[idx].copy(); chunk['score'] = float(score)
ScoredCopy(c, score) ==
    [keys |-> c.keys \cup {"score"}, text |-> c.text, file_path |-> c.file_path,
     start_line |-> c.start_line, end_line |-> c.end_line, score |-> score]

\* Variant of KeepHit: the score threshold is not applied.
KeepHit_IgnoresScore(repo, hit, min_score) == hit.idx < Len(repo)

\* the filter of the retrieval loop
KeepHit(repo, hit, min_score) == hit.idx < Len(repo) /\ hit.score >= min_score

\* Variant of FilterHits: each kept chunk is put in front of the earlier ones.
RECURSIVE FilterHits_Prepends(_, _, _)
FilterHits_Prepends(repo, hits, min_score) ==
    IF hits = << >> THEN << >>
    ELSE LET h == Head(hits)
             rest == FilterHits_Prepends(repo, Tail(hits), min_score)
         IN IF KeepHit(repo, h, min_score)
            THEN rest \o <<ScoredCopy(ChunkAt(repo, h.idx), h.score)>>
            ELSE rest

\* the loop of _retrieve_chunks over zip(indices[0], scores[0])
RECURSIVE FilterHits(_, _, _)
FilterHits(repo, hits, min_score) ==
    IF hits = << >> THEN << >>
    ELSE LET h == Head(hits)
             rest == FilterHits(repo, Tail(hits), min_score)
         IN IF KeepHit(repo, h, min_score)
            THEN <<ScoredCopy(ChunkAt(repo, h.idx), h.score)>> \o rest
            ELSE rest

\* Variant of ChunksAfterRetrieve: chunk = self.chunks[idx], the score is stored
\* in the dict of the loaded list.
ChunksAfterRetrieve_NoCopy(repo, hits, min_score) ==
    [ i \in 1..Len(repo) |->
        IF \E j \in 1..Len(hits) :
              KeepHit(repo, hits[j], min_score) /\ ChunkAt(repo, hits[j].idx) = repo[i]
        THEN LET j == CHOOSE j \in 1..Len(hits) :
                          /\ KeepHit(repo, hits[j], min_score)
                          /\ ChunkAt(repo, hits[j].idx) = repo[i]
             IN ScoredCopy(repo[i], hits[j].score)
        ELSE repo[i] ]

\* self.chunks after the loop of _retrieve_chunks: chunk is
\* self.chunks[idx].copy(), a dict of its own whose values are strings and
\* numbers, and chunk['score'] = float(score) writes to that dict alone.
ChunksAfterRetrieve(repo, hits, min_score) == repo

NoRelevantMessage(min_score) ==
    <<"No relevant information found in the repository (all scores below ",
      ToString(min_score), " threshold).">>

----------------------------------------------------------------------------
(* The per-query state *)

\* initial_state of RAGPipeline.query
InitialState(q, history) ==
    [query |-> q, conversation_history |-> history, query_embedding |-> None,
     retrieved_chunks |-> << >>, context |-> << >>, answer |-> << >>,
     validation_passed |-> FALSE, validation_message |-> << >>,
     judge_score |-> NoScore, judge_feedback |-> None,
     retry_count |-> 0, is_retry |-> FALSE, error |-> None]

NoCalls == [embed |-> 0, search |-> 0, generate |-> 0, judge |-> 0]

\* What an external call does: it returns a value or raises an exception.
Returns(v) == [raised |-> FALSE, value |-> v, exc |-> << >>]
Raises(e) == [raised |-> TRUE, value |-> << >>, exc |-> e]

----------------------------------------------------------------------------
(* Graph nodes, as functions of the state and of what the external call does *)

\* _embed_query: r is what self.model.encode does
EmbedQueryNode(st, r) ==
    IF r.raised
    THEN [st EXCEPT !.error = <<"Error embedding query: ">> \o r.exc]
    ELSE [st EXCEPT !.query_embedding = <<"embedding of ", st.query>>]

\* _retrieve_chunks: r is what self.index.search does
RetrieveChunksNode(st, c, repo, r) ==
    IF Truthy(st.error) THEN st
    ELSE LET normalized == <<"normalized ">> \o st.query_embedding
             results == FilterHits(repo, r.value, c.min_score)
         IN IF r.raised
            THEN [st EXCEPT !.query_embedding = normalized,
                            !.error = <<"Error retrieving chunks: ">> \o r.exc]
            ELSE [st EXCEPT !.query_embedding = normalized,
                            !.retrieved_chunks = results,
                            !.error = IF results = << >>
                                      THEN NoRelevantMessage(c.min_score)
                                      ELSE st.error]

\* "[Chunk i] [file:start-end] (relevance: score)\n text" of one chunk
ContextPart(i, chunk) ==
    <<"[Chunk ", ToString(i), "] [", chunk.file_path, ":", ToString(chunk.start_line),
      "-", ToString(chunk.end_line), "] (relevance: ", ToString(chunk.score), ")\n",
      chunk.text>>

\* "\n\n".join(context_parts)
RECURSIVE ContextParts(_, _)
ContextParts(cs, i) ==
    IF i > Len(cs) THEN << >>
    ELSE (IF i > 1 THEN <<"\n\n">> ELSE << >>) \o ContextPart(i, cs[i])
         \o ContextParts(cs, i + 1)

RECURSIVE HistoryTurns(_, _)
HistoryTurns(h, i) ==
    IF i > Len(h) THEN << >>
    ELSE <<"\n[Previous Query ", ToString(i), "]: ", h[i].query, "\n",
           "[Previous Answer ", ToString(i), "]: ">> \o h[i].answer \o <<"\n">>
         \o HistoryTurns(h, i + 1)

\* Variant of HistorySection: the history is listed although enable_history is
\* false.
HistorySection_IgnoresSetting(st, c) ==
    IF st.conversation_history # << >>
    THEN <<"\n\n--- CONVERSATION HISTORY ---\n">>
         \o HistoryTurns(st.conversation_history, 1)
         \o <<"\n--- END OF HISTORY ---\n">>
    ELSE << >>

\* history_section of _build_context
HistorySection(st, c) ==
    IF st.conversation_history # << >> /\ c.enable_history
    THEN <<"\n\n--- CONVERSATION HISTORY ---\n">>
         \o HistoryTurns(st.conversation_history, 1)
         \o <<"\n--- END OF HISTORY ---\n">>
    ELSE << >>

\* Variant of FeedbackSection: the preamble does not quote the previous answer.
FeedbackSection_OmitsAnswer(st) ==
    IF st.is_retry /\ Truthy(st.judge_feedback)
    THEN <<"Note: You tried to answer this before, and gave this answer '">>
         \o <<"' but it was not good enough because of ">>
         \o st.judge_feedback
         \o <<". Try again and take into consideration this feedback. ...\n\n">>
    ELSE << >>

\* Variant of FeedbackSection: the preamble is written on every retry, with
\* whatever judge_feedback holds.
FeedbackSection_OnEveryRetry(st) ==
    IF st.is_retry
    THEN <<"Note: You tried to answer this before, and gave this answer '">>
         \o st.answer
         \o <<"' but it was not good enough because of ">>
         \o st.judge_feedback
         \o <<". Try again and take into consideration this feedback. ...\n\n">>
    ELSE << >>

\* feedback_section of _build_context
FeedbackSection(st) ==
    IF st.is_retry /\ Truthy(st.judge_feedback)
    THEN <<"Note: You tried to answer this before, and gave this answer '">>
         \o st.answer
         \o <<"' but it was not good enough because of ">>
         \o st.judge_feedback
         \o <<". Try again and take into consideration this feedback. ...\n\n">>
    ELSE << >>

Prompt(st, c) ==
    FeedbackSection(st)
    \o <<"You are a code analysis assistant ...\n\n">>
    \o HistorySection(st, c)
    \o <<"\n\nCode Context:\n">>
    \o ContextParts(st.retrieved_chunks, 1)
    \o <<"\n\n--- CURRENT USER QUERY ---\nQuestion: ", st.query,
         "\n\nInstructions: ...\n\nAnswer:">>

\* chunk['file_path'] or chunk['text'] raises KeyError
MalformedChunk(chunk) == ~({"file_path", "text"} \subseteq chunk.keys)

\* _build_context
BuildContextNode(st, c) ==
    IF Truthy(st.error) THEN st
    ELSE IF st.retrieved_chunks = << >>
    THEN [st EXCEPT !.error = <<"No relevant information found in the repository.">>]
    ELSE IF \E i \in 1..Len(st.retrieved_chunks) : MalformedChunk(st.retrieved_chunks[i])
    THEN [st EXCEPT !.error = <<"Error building context: ", "'text'">>]
    ELSE [st EXCEPT !.context = Prompt(st, c)]

\* Variant of GenerateAnswerNode: the model is invoked although error is set.
GenerateAnswerNode_NoErrorGuard(st, r) ==
    IF r.raised
    THEN [st EXCEPT !.answer = <<"Error generating answer: ">> \o r.exc,
                    !.error = r.exc]
    ELSE [st EXCEPT !.answer = r.value]

\* Variant of GenerateAnswerNode: an answer the state already holds is kept.
GenerateAnswerNode_KeepsFirstAnswer(st, r) ==
    IF Truthy(st.error) THEN [st EXCEPT !.answer = st.error]
    ELSE IF st.answer # << >> THEN st
    ELSE IF r.raised
    THEN [st EXCEPT !.answer = <<"Error generating answer: ">> \o r.exc,
                    !.error = r.exc]
    ELSE [st EXCEPT !.answer = r.value]

\* _generate_answer: r is what self.llm.invoke does
GenerateAnswerNode(st, r) ==
    IF Truthy(st.error) THEN [st EXCEPT !.answer = st.error]
    ELSE IF r.raised
    THEN [st EXCEPT !.answer = <<"Error generating answer: ">> \o r.exc,
                    !.error = r.exc]
    ELSE [st EXCEPT !.answer = r.value]

----------------------------------------------------------------------------
(* The judge (src/core/judge.py) *)

\* Feedback texts a judge response may carry: null, "", 40 and 200 characters.
Feedbacks == { None, << >>, <<"fb">>, <<"fb_long">> }

FeedbackLen(fb) ==
    CASE fb = << >> -> 0
      [] fb = <<"fb">> -> 40
      [] fb = <<"fb_long">> -> 200

\* feedback[:147] + "..."
Truncated(fb) == <<"fb_long[:147]", "...">>

RawScores == {0, 2, 3, 4, 5, 7}

\* What the judge model may answer:
\*   json          a JSON object; score is its "score" field, feedback its "feedback"
\*   json_noscore  a JSON object without a "score" field
\*   json_bad      JSON whose processing raises an exception other than
\*                 JSONDecodeError or ValueError (an array, "score": null)
\*   json_word     a JSON object whose "score" is a string that is no number:
\*                 int() raises ValueError and the text patterns are tried
\*   text          not JSON
\* For json_word and text, score is the digit the pattern score[:\s]+(\d) finds
\* (-1: no match) and feedback what feedback[:\s]+(.+?) finds, stripped
\* (None: no match).
AllJudgeContents ==
    { [shape |-> "json", score |-> s, feedback |-> f] : s \in -1..8, f \in Feedbacks }
    \cup { [shape |-> sh, score |-> 4, feedback |-> None] : sh \in {"json_bad", "json_noscore"} }
    \cup { [shape |-> sh, score |-> s, feedback |-> f] :
             sh \in {"text", "json_word"}, s \in -1..9, f \in {None, << >>, <<"fb">>} }

\* The answers of the judge model the sessions of Spec draw from.
JudgeContents ==
    { [shape |-> "json", score |-> s, feedback |-> f] : s \in RawScores, f \in Feedbacks }
    \cup { [shape |-> "json_bad", score |-> 4, feedback |-> None] }
    \cup { [shape |-> "text", score |-> s, feedback |-> f] :
             s \in {-1, 1, 9}, f \in {None, <<"fb">>} }

\* Variant of Clamp: the score is not limited from above.
Clamp_NoUpperBound(score) == Max(1, score)

\* score = max(1, min(6, score))
Clamp(score) == Max(1, Min(6, score))

\* Variant of ParseJudgeResponse: free text without a score counts as score 1.
ParseJudgeResponse_NoMatchScoresLowest(content) ==
    CASE content.shape \in {"json", "json_noscore"} ->
           LET score == Clamp(IF content.shape = "json" THEN content.score ELSE 4)
               fb == content.feedback
           IN [raised |-> FALSE, score |-> score,
               feedback |-> IF score <= 2
                            THEN IF Truthy(fb) /\ FeedbackLen(fb) > 150
                                 THEN Truncated(fb) ELSE fb
                            ELSE None]
      [] content.shape = "json_bad" ->
           [raised |-> TRUE, score |-> 0, feedback |-> None]
      [] content.shape \in {"text", "json_word"} ->
           LET score == IF content.score >= 0 THEN Clamp(content.score) ELSE 1
           IN [raised |-> FALSE, score |-> score,
               feedback |-> IF score <= 2 THEN content.feedback ELSE None]

\* _parse_judge_response; raised: an exception leaves the function
ParseJudgeResponse(content) ==
    CASE content.shape \in {"json", "json_noscore"} ->
           LET score == Clamp(IF content.shape = "json" THEN content.score ELSE 4)
               fb == content.feedback
           IN [raised |-> FALSE, score |-> score,
               feedback |-> IF score <= 2
                            THEN IF Truthy(fb) /\ FeedbackLen(fb) > 150
                                 THEN Truncated(fb) ELSE fb
                            ELSE None]
      [] content.shape = "json_bad" ->
           [raised |-> TRUE, score |-> 0, feedback |-> None]
      [] content.shape \in {"text", "json_word"} ->
           LET score == IF content.score >= 0 THEN Clamp(content.score) ELSE 4
           IN [raised |-> FALSE, score |-> score,
               feedback |-> IF score <= 2 THEN content.feedback ELSE None]

\* Variant of EvaluateAnswer: a failed evaluation counts as the lowest score.
EvaluateAnswer_FailureScoresLowest(r) ==
    IF r.raised \/ ParseJudgeResponse(r.value).raised
    THEN [failed |-> TRUE, score |-> 1, feedback |-> None]
    ELSE [failed |-> FALSE, score |-> ParseJudgeResponse(r.value).score,
          feedback |-> ParseJudgeResponse(r.value).feedback]

\* evaluate_answer: r is what the judge's self.llm.invoke does
EvaluateAnswer(r) ==
    IF r.raised \/ ParseJudgeResponse(r.value).raised
    THEN [failed |-> TRUE, score |-> 4, feedback |-> None]
    ELSE [failed |-> FALSE, score |-> ParseJudgeResponse(r.value).score,
          feedback |-> ParseJudgeResponse(r.value).feedback]

\* Variant of ConfidenceMessage: a score equal to a threshold counts as below it.
ConfidenceMessage_StrictThresholds(score, c) ==
    IF score > c.high THEN None
    ELSE IF score > c.medium THEN MediumConfidenceMessage
    ELSE LowConfidenceMessage

\* get_confidence_message
ConfidenceMessage(score, c) ==
    IF score >= c.high THEN None
    ELSE IF score >= c.medium THEN MediumConfidenceMessage
    ELSE LowConfidenceMessage

\* Variant of JudgeAnswerNode: the answer is judged although error is set.
JudgeAnswerNode_NoErrorGuard(st, c, r) ==
    IF ~c.judge_enabled
    THEN [st EXCEPT !.judge_score = <<5>>, !.judge_feedback = None]
    ELSE [st EXCEPT !.judge_score = <<EvaluateAnswer(r).score>>,
                    !.judge_feedback = EvaluateAnswer(r).feedback]

\* Variant of JudgeAnswerNode: the lowest score of the attempts so far is kept.
JudgeAnswerNode_KeepsLowestScore(st, c, r) ==
    IF Truthy(st.error) \/ ~c.judge_enabled
    THEN [st EXCEPT !.judge_score = <<5>>, !.judge_feedback = None]
    ELSE [st EXCEPT !.judge_score =
                        IF st.judge_score = NoScore THEN <<EvaluateAnswer(r).score>>
                        ELSE <<Min(st.judge_score[1], EvaluateAnswer(r).score)>>,
                    !.judge_feedback = EvaluateAnswer(r).feedback]

\* _judge_answer; its own except clause gives the same (4, None) as the one
\* of evaluate_answer
JudgeAnswerNode(st, c, r) ==
    IF Truthy(st.error) \/ ~c.judge_enabled
    THEN [st EXCEPT !.judge_score = <<5>>, !.judge_feedback = None]
    ELSE [st EXCEPT !.judge_score = <<EvaluateAnswer(r).score>>,
                    !.judge_feedback = EvaluateAnswer(r).feedback]

\* Variant of ShouldRetry: a retry is still selected at retry_count = max_retries.
ShouldRetry_RetryAtLimit(st, c) ==
    IF ~c.judge_enabled THEN "finalize"
    ELSE IF st.judge_score[1] <= 2 /\ st.retry_count <= c.max_retries
    THEN "retry" ELSE "finalize"

\* Variant of ShouldRetry: only a score below 2 selects a retry.
ShouldRetry_ScoreBelowTwo(st, c) ==
    IF ~c.judge_enabled THEN "finalize"
    ELSE IF st.judge_score[1] < 2 /\ st.retry_count < c.max_retries
    THEN "retry" ELSE "finalize"

\* Variant of ShouldRetry: a low score selects a retry whatever retry_count is,
\* up to a count of 100.
ShouldRetry_IgnoresCount(st, c) ==
    IF ~c.judge_enabled THEN "finalize"
    ELSE IF st.judge_score[1] <= 2 /\ st.retry_count < 100
    THEN "retry" ELSE "finalize"

\* _should_retry
ShouldRetry(st, c) ==
    IF ~c.judge_enabled THEN "finalize"
    ELSE IF st.judge_score[1] <= 2 /\ st.retry_count < c.max_retries
    THEN "retry" ELSE "finalize"

\* Variant of PrepareRetryNode: is_retry is not set.
PrepareRetryNode_NoFlag(st) ==
    [st EXCEPT !.retry_count = st.retry_count + 1]

\* _prepare_retry
PrepareRetryNode(st) ==
    [st EXCEPT !.retry_count = st.retry_count + 1, !.is_retry = TRUE]

\* Variant of FinalizeAnswerNode: a low final score gets the annotation of its
\* score instead of the cannot-help message.
FinalizeAnswerNode_AnnotatesLowScore(st, c) ==
    IF ~c.judge_enabled THEN st
    ELSE IF Truthy(ConfidenceMessage(st.judge_score[1], c))
    THEN [st EXCEPT !.answer = st.answer \o ConfidenceMessage(st.judge_score[1], c)]
    ELSE st

\* Variant of FinalizeAnswerNode: the cannot-help message is substituted only
\* when a retry was made.
FinalizeAnswerNode_RefusesOnlyAfterRetry(st, c) ==
    IF ~c.judge_enabled THEN st
    ELSE IF st.judge_score[1] <= 2 /\ st.retry_count >= Max(1, c.max_retries)
    THEN [st EXCEPT !.answer = CannotHelpMessage]
    ELSE IF Truthy(ConfidenceMessage(st.judge_score[1], c))
    THEN [st EXCEPT !.answer = st.answer \o ConfidenceMessage(st.judge_score[1], c)]
    ELSE st

\* Variant of FinalizeAnswerNode: the cannot-help message is substituted only
\* when retry_count is above max_retries.
FinalizeAnswerNode_RefusesBeyondLimit(st, c) ==
    IF ~c.judge_enabled THEN st
    ELSE IF st.judge_score[1] <= 2 /\ st.retry_count > c.max_retries
    THEN [st EXCEPT !.answer = CannotHelpMessage]
    ELSE IF Truthy(ConfidenceMessage(st.judge_score[1], c))
    THEN [st EXCEPT !.answer = st.answer \o ConfidenceMessage(st.judge_score[1], c)]
    ELSE st

\* _finalize_answer
FinalizeAnswerNode(st, c) ==
    IF ~c.judge_enabled THEN st
    ELSE IF st.judge_score[1] <= 2 /\ st.retry_count >= c.max_retries
    THEN [st EXCEPT !.answer = CannotHelpMessage]
    ELSE IF Truthy(ConfidenceMessage(st.judge_score[1], c))
    THEN [st EXCEPT !.answer = st.answer \o ConfidenceMessage(st.judge_score[1], c)]
    ELSE st

----------------------------------------------------------------------------
(* Validation *)

\* "; ".join(validation_issues)
RECURSIVE JoinIssues(_)
JoinIssues(issues) ==
    IF issues = << >> THEN << >>
    ELSE IF Len(issues) = 1 THEN <<issues[1]>>
    ELSE <<issues[1], "; ">> \o JoinIssues(Tail(issues))

\* Variant of ValidationIssues: the grounding check runs whatever check_grounding is.
ValidationIssues_GroundingAlways(answer, c) ==
    (IF c.require_citations /\ ~HasCitation(answer)
     THEN <<"Answer lacks specific file:line citations">> ELSE << >>)
    \o (IF TextLen(answer) < c.min_answer_length
        THEN <<"Answer too short">> ELSE << >>)
    \o (IF TextLen(answer) < 100 /\ ~HasCitation(answer) /\ ~HasHedge(answer)
        THEN <<"Answer may not be properly grounded">> ELSE << >>)

\* Variant of ValidationIssues: the grounding check does not look for a citation.
ValidationIssues_GroundingIgnoresCitation(answer, c) ==
    (IF c.require_citations /\ ~HasCitation(answer)
     THEN <<"Answer lacks specific file:line citations">> ELSE << >>)
    \o (IF TextLen(answer) < c.min_answer_length
        THEN <<"Answer too short">> ELSE << >>)
    \o (IF c.check_grounding /\ TextLen(answer) < 100 /\ ~HasHedge(answer)
        THEN <<"Answer may not be properly grounded">> ELSE << >>)

\* validation_issues of _validate_answer
ValidationIssues(answer, c) ==
    (IF c.require_citations /\ ~HasCitation(answer)
     THEN <<"Answer lacks specific file:line citations">> ELSE << >>)
    \o (IF TextLen(answer) < c.min_answer_length
        THEN <<"Answer too short">> ELSE << >>)
    \o (IF c.check_grounding /\ TextLen(answer) < 100 /\ ~HasCitation(answer)
           /\ ~HasHedge(answer)
        THEN <<"Answer may not be properly grounded">> ELSE << >>)

\* Variant of ValidateAnswerNode: require_citations switches off the citation
\* check only.
ValidateAnswerNode_NoSwitch(st, c) ==
    IF Truthy(st.error)
    THEN [st EXCEPT !.validation_passed = FALSE,
                    !.validation_message =
                        <<"Validation skipped due to error: ">> \o st.error]
    ELSE IF ValidationIssues(st.answer, c) # << >>
    THEN [st EXCEPT !.validation_passed = FALSE,
                    !.validation_message =
                        <<"Validation issues: ">>
                        \o JoinIssues(ValidationIssues(st.answer, c))]
    ELSE [st EXCEPT !.validation_passed = TRUE,
                    !.validation_message = <<"Answer passed all validation checks">>]

\* Variant of ValidateAnswerNode: the message is added to the one the state holds.
ValidateAnswerNode_AccumulatesMessage(st, c) ==
    IF Truthy(st.error)
    THEN [st EXCEPT !.validation_passed = FALSE,
                    !.validation_message =
                        st.validation_message
                        \o <<"Validation skipped due to error: ">> \o st.error]
    ELSE IF ~c.require_citations
    THEN [st EXCEPT !.validation_passed = TRUE,
                    !.validation_message =
                        st.validation_message \o <<"Validation disabled in config">>]
    ELSE IF ValidationIssues(st.answer, c) # << >>
    THEN [st EXCEPT !.validation_passed = FALSE,
                    !.validation_message =
                        st.validation_message \o <<"Validation issues: ">>
                        \o JoinIssues(ValidationIssues(st.answer, c))]
    ELSE [st EXCEPT !.validation_passed = TRUE,
                    !.validation_message =
                        st.validation_message \o <<"Answer passed all validation checks">>]

\* _validate_answer
ValidateAnswerNode(st, c) ==
    IF Truthy(st.error)
    THEN [st EXCEPT !.validation_passed = FALSE,
                    !.validation_message =
                        <<"Validation skipped due to error: ">> \o st.error]
    ELSE IF ~c.require_citations
    THEN [st EXCEPT !.validation_passed = TRUE,
                    !.validation_message = <<"Validation disabled in config">>]
    ELSE IF ValidationIssues(st.answer, c) # << >>
    THEN [st EXCEPT !.validation_passed = FALSE,
                    !.validation_message =
                        <<"Validation issues: ">>
                        \o JoinIssues(ValidationIssues(st.answer, c))]
    ELSE [st EXCEPT !.validation_passed = TRUE,
                    !.validation_message = <<"Answer passed all validation checks">>]

----------------------------------------------------------------------------
(* RAGPipeline.query after the graph has run *)

\* lst[-n:] of Python, n >= 0: the last n elements, and the whole list for n = 0
LastN(lst, n) ==
    IF n = 0 \/ n >= Len(lst) THEN lst
    ELSE SubSeq(lst, Len(lst) - n + 1, Len(lst))

\* Variant of UpdatedHistory: the turn is appended whenever no error is set.
UpdatedHistory_IgnoresValidation(history, final, c) ==
    IF ~Truthy(final.error)
    THEN LET appended == Append(history, [query |-> final.query, answer |-> final.answer])
         IN IF Len(appended) > c.max_history_turns
            THEN LastN(appended, c.max_history_turns)
            ELSE appended
    ELSE history

\* the history update of query()
UpdatedHistory(history, final, c) ==
    IF final.validation_passed /\ ~Truthy(final.error)
    THEN LET appended == Append(history, [query |-> final.query, answer |-> final.answer])
         IN IF Len(appended) > c.max_history_turns
            THEN LastN(appended, c.max_history_turns)
            ELSE appended
    ELSE history

\* The list a caller holds from get_history(), after query() has updated the
\* session list. A list that is the session list itself (live) sees the
\* in-place append and, when the slice binds the attribute to a new list, stops
\* being the session list; a copy sees nothing.
SnapshotAfterUpdate(snap, history, final, c) ==
    LET appended == Append(history, [query |-> final.query, answer |-> final.answer])
    IN IF snap.live /\ final.validation_passed /\ ~Truthy(final.error)
       THEN [snap EXCEPT !.turns = appended,
                         !.live = ~(Len(appended) > c.max_history_turns)]
       ELSE snap

\* Variant of GetHistoryResult: the session list itself is handed out.
GetHistoryResult_LiveReference(history) ==
    [held |-> TRUE, live |-> TRUE, edited |-> FALSE, turns |-> history]

\* get_history(): self.conversation_history.copy()
GetHistoryResult(history) ==
    [held |-> TRUE, live |-> FALSE, edited |-> FALSE, turns |-> history]

\* What a caller may do to the list it holds: add a turn of its own, remove
\* the last turn, reverse the order.
CallerEdits == {"append", "pop", "reverse"}

RECURSIVE Reversed(_)
Reversed(lst) ==
    IF lst = << >> THEN << >> ELSE Append(Reversed(Tail(lst)), Head(lst))

Edited(lst, op) ==
    CASE op = "append" -> Append(lst, [query |-> "caller", answer |-> <<"caller">>])
      [] op = "pop" -> IF lst = << >> THEN lst ELSE SubSeq(lst, 1, Len(lst) - 1)
      [] op = "reverse" -> Reversed(lst)

\* Variant of ReturnedAnswer: the validation note is added with judging enabled too.
ReturnedAnswer_NoteWithJudge(final, c) ==
    IF ~final.validation_passed
    THEN final.answer \o <<"\n\n[Validation Note: ">> \o final.validation_message \o <<"]">>
    ELSE final.answer

\* Variant of ReturnedAnswer: the validation note is never added.
ReturnedAnswer_NeverNotes(final, c) == final.answer

\* Variant of ReturnedAnswer: without a judge the validation message is added
\* whether validation passed or not.
ReturnedAnswer_AlwaysNotes(final, c) ==
    IF ~c.judge_enabled
    THEN final.answer \o <<"\n\n[Validation Note: ">> \o final.validation_message \o <<"]">>
    ELSE final.answer

\* the value query() returns
ReturnedAnswer(final, c) ==
    IF ~c.judge_enabled /\ ~final.validation_passed
    THEN final.answer \o <<"\n\n[Validation Note: ">> \o final.validation_message \o <<"]">>
    ELSE final.answer

\* What query() hands to its caller, by name: `return answer`, the text alone.
QueryResult(final, c) == [answer |-> ReturnedAnswer(final, c)]

\* The names an instance of RAGPipeline has: the attributes __init__ sets and
\* the methods of the class.
RAGPipelineAttributes ==
    { "config", "model", "index", "chunks", "llm", "judge", "graph",
      "conversation_history", "_load_index_and_metadata", "_embed_query",
      "_retrieve_chunks", "_build_context", "_generate_answer", "_judge_answer",
      "_validate_answer", "_should_retry", "_prepare_retry", "_finalize_answer",
      "_build_graph", "query", "clear_history", "get_history" }

----------------------------------------------------------------------------
(* Indexing (src/core/indexer.py) and the files it leaves                    *)

\* batch_size of _generate_embeddings
BatchSize == 32

\* the most files a repository has, and the chunks of a large file
MaxFiles == 2
ManyChunks == 33

\* self.model.encode of one text, and the vector faiss.normalize_L2 makes of it
Encode(text) == <<"embedding of">> \o text
Normalize(v) == <<"unit">> \o v

\* The k-th chunk chunk_file makes of the file at `path`: a text with line
\* breaks in it (every second chunk), its lines and its type.
FileChunk(path, k) ==
    [keys |-> {"text", "file_path", "start_line", "end_line", "type"},
     text |-> IF k % 2 = 1 THEN <<"def f" \o ToString(k), "\n", "    pass">>
              ELSE <<"class C" \o ToString(k)>>,
     file_path |-> path, start_line |-> k, end_line |-> k + 1,
     type |-> IF k % 2 = 1 THEN "FunctionDef" ELSE "ClassDef"]

\* chunker.chunk_file(content, path) for a file that yields n chunks
FileChunks(path, n) == [ k \in 1..n |-> FileChunk(path, k) ]

\* The files loader.discover_files() finds: chunks is the number of chunks the
\* file yields, 0 for a file whose content is empty or unreadable.
ChunkCounts == {0, 1, 2, ManyChunks}

RepositoryFiles ==
    UNION { [1..n -> ChunkCounts] : n \in 0..MaxFiles }

FilePath(i) == "pkg/m" \o ToString(i) \o ".py"

\* Variant of EncodeBatches: the batch is texts[i:i + batch_size - 1].
RECURSIVE EncodeBatches_ShortBatch(_, _)
EncodeBatches_ShortBatch(texts, i) ==
    IF i > Len(texts) THEN << >>
    ELSE LET batch == SubSeq(texts, i, Min(i + BatchSize - 2, Len(texts)))
         IN [ k \in 1..Len(batch) |-> Encode(batch[k]) ]
            \o EncodeBatches_ShortBatch(texts, i + BatchSize)

\* the loop of _generate_embeddings from text i (1-based) on: all_embeddings
\* is extended with the embeddings of texts[i:i + batch_size]
RECURSIVE EncodeBatches(_, _)
EncodeBatches(texts, i) ==
    IF i > Len(texts) THEN << >>
    ELSE LET batch == SubSeq(texts, i, Min(i + BatchSize - 1, Len(texts)))
         IN [ k \in 1..Len(batch) |-> Encode(batch[k]) ]
            \o EncodeBatches(texts, i + BatchSize)

\* json.dumps of a string: a line break in it is written as the two
\* characters \n
RECURSIVE Escape(_)
Escape(text) ==
    IF text = << >> THEN << >>
    ELSE <<IF Head(text) = "\n" THEN "\\n" ELSE Head(text)>> \o Escape(Tail(text))

\* json.loads of a string
RECURSIVE Unescape(_)
Unescape(text) ==
    IF text = << >> THEN << >>
    ELSE <<IF Head(text) = "\\n" THEN "\n" ELSE Head(text)>> \o Unescape(Tail(text))

\* Variant of JsonDumps: the text is written as it is.
JsonDumps_Unescaped(chunk) ==
    <<"{\"text\": \"">> \o chunk.text
    \o <<"\", \"file_path\": \"", chunk.file_path,
         "\", \"start_line\": ", ToString(chunk.start_line),
         ", \"end_line\": ", ToString(chunk.end_line),
         ", \"type\": \"", chunk.type, "\"}">>

\* json.dumps(chunk, ensure_ascii=False)
JsonDumps(chunk) ==
    <<"{\"text\": \"">> \o Escape(chunk.text)
    \o <<"\", \"file_path\": \"", chunk.file_path,
         "\", \"start_line\": ", ToString(chunk.start_line),
         ", \"end_line\": ", ToString(chunk.end_line),
         ", \"type\": \"", chunk.type, "\"}">>

\* the number a decimal numeral denotes
ParseInt(s) == CHOOSE n \in 0..(ManyChunks + 2) : ToString(n) = s

\* the line is a JSON object json.loads accepts
WellFormed(line) ==
    /\ Len(line) >= 10
    /\ line[1] = "{\"text\": \""
    /\ \A i \in 2..(Len(line) - 9) : line[i] # "\n"
    /\ line[Len(line) - 8] = "\", \"file_path\": \""
    /\ line[Len(line) - 6] = "\", \"start_line\": "
    /\ line[Len(line) - 4] = ", \"end_line\": "
    /\ line[Len(line) - 2] = ", \"type\": \""
    /\ line[Len(line)] = "\"}"

\* json.loads(line.strip()) of a well-formed line
JsonLoads(line) ==
    [keys |-> {"text", "file_path", "start_line", "end_line", "type"},
     text |-> Unescape(SubSeq(line, 2, Len(line) - 9)),
     file_path |-> line[Len(line) - 7],
     start_line |-> ParseInt(line[Len(line) - 5]),
     end_line |-> ParseInt(line[Len(line) - 3]),
     type |-> line[Len(line) - 1]]

\* the file _save_metadata writes: one line per chunk, in the order of the list
RECURSIVE MetadataFile(_)
MetadataFile(cs) ==
    IF cs = << >> THEN << >>
    ELSE JsonDumps(Head(cs)) \o <<"\n">> \o MetadataFile(Tail(cs))

\* `for line in f`: the lines of the file, without their line ends
RECURSIVE ReadLines(_)
ReadLines(file) ==
    IF file = << >> THEN << >>
    ELSE IF Positions("\n", file) = {} THEN <<file>>
    ELSE LET e == CHOOSE i \in Positions("\n", file) :
                      \A j \in Positions("\n", file) : i <= j
         IN <<SubSeq(file, 1, e - 1)>> \o ReadLines(SubSeq(file, e + 1, Len(file)))

\* A DocumentIndexer that has found `files` and has chunked none of them yet.
NewIndexer(files) ==
    [pc |-> "chunk_files", files |-> files, next_file |-> 1,
     chunks |-> << >>, embeddings |-> << >>]

\* no indexing process in sight
NoIndexer == [pc |-> "none", files |-> << >>, next_file |-> 1,
              chunks |-> << >>, embeddings |-> << >>]

\* The index file and the metadata file; the sessions read neither after the
\* pipeline is constructed.
NoFiles == [index_exists |-> FALSE, index |-> << >>,
            metadata_exists |-> FALSE, metadata |-> << >>]

----------------------------------------------------------------------------
(* What the external services may do *)

EmbedBehaviours == { Returns(<<"vector">>) } \cup { Raises(e) : e \in ExcMsgs }

SearchBehaviours(k) ==
    { Returns(r) : r \in SearchResults(k) } \cup { Raises(e) : e \in ExcMsgs }

LlmBehaviours == { Returns(a) : a \in GenAnswers } \cup { Raises(e) : e \in ExcMsgs }

AllLlmBehaviours == { Returns(a) : a \in AllGenAnswers } \cup { Raises(e) : e \in ExcMsgs }

JudgeBehaviours == { Returns(j) : j \in JudgeContents } \cup { Raises(e) : e \in ExcMsgs }

AllJudgeBehaviours ==
    { Returns(j) : j \in AllJudgeContents } \cup { Raises(e) : e \in ExcMsgs }

\* The judge model answered, and its answer has neither a usable "score" field
\* nor a match of the score pattern.
Unparseable(r) ==
    /\ ~r.raised
    /\ \/ r.value.shape \in {"json_bad", "json_noscore"}
       \/ r.value.shape \in {"text", "json_word"} /\ r.value.score < 0

\* nothing is fixed about what the models do
NoScript == [llm |-> << >>, judge |-> << >>]

\* what get_history() has handed out: nothing yet
NoSnapshot == [held |-> FALSE, live |-> FALSE, edited |-> FALSE, turns |-> << >>]

----------------------------------------------------------------------------
(* The state machine *)

Init ==
    /\ cfg \in SpecConfigs
    /\ chunks = Repository
    /\ conversation_history = << >>
    /\ pc = "idle"
    /\ state = InitialState("", << >>)
    /\ returned = None
    /\ calls = NoCalls
    /\ gen_failed = FALSE
    /\ judge_failed = FALSE
    /\ all_low = TRUE
    /\ judge_unparsed = FALSE
    /\ snapshot = NoSnapshot
    /\ trace = << >>
    /\ search_hits = << >>
    /\ indexer = NoIndexer
    /\ disk = NoFiles
    /\ index = << >>
    /\ script = NoScript
    /\ cleared_at = -1
    /\ nqueries = 0

\* Variant of Query: the state of the previous query is used again, with the
\* new question and the current history.
Query_KeepsState(q) ==
    /\ pc = "idle"
    /\ nqueries < MaxQueries
    /\ state' = [state EXCEPT !.query = q, !.conversation_history = conversation_history]
    /\ pc' = "embed_query"
    /\ returned' = None
    /\ calls' = NoCalls
    /\ gen_failed' = FALSE
    /\ judge_failed' = FALSE
    /\ all_low' = TRUE
    /\ judge_unparsed' = FALSE
    /\ nqueries' = nqueries + 1
    /\ trace' = << >>
    /\ UNCHANGED <<cfg, chunks, conversation_history, snapshot, search_hits,
                   indexer, disk, index, script, cleared_at>>

\* query(user_query): the initial state is built and the graph is entered
Query(q) ==
    /\ pc = "idle"
    /\ nqueries < MaxQueries
    /\ state' = InitialState(q, conversation_history)
    /\ pc' = "embed_query"
    /\ returned' = None
    /\ calls' = NoCalls
    /\ gen_failed' = FALSE
    /\ judge_failed' = FALSE
    /\ all_low' = TRUE
    /\ judge_unparsed' = FALSE
    /\ nqueries' = nqueries + 1
    /\ trace' = << >>
    /\ UNCHANGED <<cfg, chunks, conversation_history, snapshot, search_hits,
                   indexer, disk, index, script, cleared_at>>

EmbedQuery ==
    /\ pc = "embed_query"
    /\ \E r \in EmbedBehaviours : state' = EmbedQueryNode(state, r)
    /\ calls' = [calls EXCEPT !.embed = @ + 1]
    /\ pc' = "retrieve_chunks"
    /\ trace' = Append(trace, pc)
    /\ UNCHANGED <<cfg, chunks, conversation_history, returned, gen_failed,
                   judge_failed, all_low, judge_unparsed, snapshot, nqueries, search_hits,
                   indexer, disk, index, script, cleared_at>>

\* retrieve_chunks, the vector search doing one of `behaviours`
RetrieveChunksOn(behaviours) ==
    /\ pc = "retrieve_chunks"
    /\ \E r \in behaviours :
          /\ state' = RetrieveChunksNode(state, cfg, chunks, r)
          /\ chunks' = IF Truthy(state.error) \/ r.raised THEN chunks
                        ELSE ChunksAfterRetrieve(chunks, r.value, cfg.min_score)
    /\ calls' = IF Truthy(state.error) THEN calls ELSE [calls EXCEPT !.search = @ + 1]
    /\ pc' = "build_context"
    /\ trace' = Append(trace, pc)
    /\ UNCHANGED <<cfg, conversation_history, returned, gen_failed,
                   judge_failed, all_low, judge_unparsed, snapshot, nqueries, search_hits,
                   indexer, disk, index, script, cleared_at>>

RetrieveChunks == RetrieveChunksOn(SearchBehaviours(cfg.top_k))

BuildContext ==
    /\ pc = "build_context"
    /\ state' = BuildContextNode(state, cfg)
    /\ pc' = "generate_answer"
    /\ trace' = Append(trace, pc)
    /\ UNCHANGED <<cfg, chunks, conversation_history, returned, calls, gen_failed,
                   judge_failed, all_low, judge_unparsed, snapshot, nqueries, search_hits,
                   indexer, disk, index, script, cleared_at>>

\* Variant of AfterGenerate: the judge nodes are entered without a judge too.
AfterGenerate_AlwaysJudges(c) == "judge_answer"

\* the edge out of generate_answer: to judge_answer when the judge exists
AfterGenerate(c) == IF c.judge_enabled THEN "judge_answer" ELSE "validate_answer"

\* generate_answer, the language model doing one of `behaviours`
GenerateAnswerOn(behaviours) ==
    /\ pc = "generate_answer"
    /\ \E r \in behaviours :
          /\ state' = GenerateAnswerNode(state, r)
          /\ gen_failed' = (gen_failed \/ (~Truthy(state.error) /\ r.raised))
    /\ calls' = IF Truthy(state.error) THEN calls ELSE [calls EXCEPT !.generate = @ + 1]
    /\ pc' = AfterGenerate(cfg)
    /\ trace' = Append(trace, pc)
    /\ UNCHANGED <<cfg, chunks, conversation_history, returned, judge_failed, all_low,
                   judge_unparsed, snapshot, nqueries, search_hits,
                   indexer, disk, index, script, cleared_at>>

GenerateAnswer == GenerateAnswerOn(LlmBehaviours)

\* the conditional edge out of judge_answer
AfterJudge(st, c) ==
    IF ShouldRetry(st, c) = "retry" THEN "prepare_retry" ELSE "finalize_answer"

\* judge_answer, the judge model doing one of `behaviours`
JudgeAnswerOn(behaviours) ==
    /\ pc = "judge_answer"
    /\ \E r \in behaviours :
          /\ state' = JudgeAnswerNode(state, cfg, r)
          /\ judge_failed' = (~Truthy(state.error) /\ EvaluateAnswer(r).failed)
          /\ judge_unparsed' = (~Truthy(state.error) /\ Unparseable(r))
    /\ calls' = IF Truthy(state.error) THEN calls ELSE [calls EXCEPT !.judge = @ + 1]
    /\ all_low' = (all_low /\ state'.judge_score[1] <= 2)
    /\ pc' = AfterJudge(state', cfg)
    /\ trace' = Append(trace, pc)
    /\ UNCHANGED <<cfg, chunks, conversation_history, returned, gen_failed, snapshot,
                   nqueries, search_hits,
                   indexer, disk, index, script, cleared_at>>

JudgeAnswer == JudgeAnswerOn(JudgeBehaviours)

\* Variant of PrepareRetry: the retry starts again at embed_query.
PrepareRetry_ReEmbeds ==
    /\ pc = "prepare_retry"
    /\ state' = PrepareRetryNode(state)
    /\ pc' = "embed_query"
    /\ trace' = Append(trace, pc)
    /\ UNCHANGED <<cfg, chunks, conversation_history, returned, calls, gen_failed,
                   judge_failed, all_low, judge_unparsed, snapshot, nqueries, search_hits,
                   indexer, disk, index, script, cleared_at>>

\* prepare_retry and the edge back to build_context
PrepareRetry ==
    /\ pc = "prepare_retry"
    /\ state' = PrepareRetryNode(state)
    /\ pc' = "build_context"
    /\ trace' = Append(trace, pc)
    /\ UNCHANGED <<cfg, chunks, conversation_history, returned, calls, gen_failed,
                   judge_failed, all_low, judge_unparsed, snapshot, nqueries, search_hits,
                   indexer, disk, index, script, cleared_at>>

FinalizeAnswer ==
    /\ pc = "finalize_answer"
    /\ state' = FinalizeAnswerNode(state, cfg)
    /\ pc' = "validate_answer"
    /\ trace' = Append(trace, pc)
    /\ UNCHANGED <<cfg, chunks, conversation_history, returned, calls, gen_failed,
                   judge_failed, all_low, judge_unparsed, snapshot, nqueries, search_hits,
                   indexer, disk, index, script, cleared_at>>

\* Variant of ValidateAnswer: the node records the turn of a valid answer itself.
ValidateAnswer_RecordsTurn ==
    /\ pc = "validate_answer"
    /\ state' = ValidateAnswerNode(state, cfg)
    /\ conversation_history' =
          IF state'.validation_passed
          THEN Append(conversation_history, [query |-> state.query, answer |-> state.answer])
          ELSE conversation_history
    /\ pc' = "END"
    /\ trace' = Append(trace, pc)
    /\ UNCHANGED <<cfg, chunks, returned, calls, gen_failed, judge_failed, all_low,
                   judge_unparsed, snapshot, nqueries, search_hits,
                   indexer, disk, index, script, cleared_at>>

ValidateAnswer ==
    /\ pc = "validate_answer"
    /\ state' = ValidateAnswerNode(state, cfg)
    /\ pc' = "END"
    /\ trace' = Append(trace, pc)
    /\ UNCHANGED <<cfg, chunks, conversation_history, returned, calls, gen_failed,
                   judge_failed, all_low, judge_unparsed, snapshot, nqueries, search_hits,
                   indexer, disk, index, script, cleared_at>>

\* graph.invoke has returned final_state: history update and return
QueryReturn ==
    /\ pc = "END"
    /\ conversation_history' = UpdatedHistory(conversation_history, state, cfg)
    /\ snapshot' = SnapshotAfterUpdate(snapshot, conversation_history, state, cfg)
    /\ returned' = ReturnedAnswer(state, cfg)
    /\ pc' = "idle"
    /\ UNCHANGED <<cfg, chunks, state, calls, gen_failed, judge_failed, all_low,
                   judge_unparsed, nqueries, trace, search_hits,
                   indexer, disk, index, script, cleared_at>>

\* Variant of ClearHistoryAt: a copy of the list is emptied.
ClearHistoryAt_ClearsACopy(mark) ==
    /\ pc = "idle"
    /\ conversation_history' = conversation_history
    /\ snapshot' = snapshot
    /\ cleared_at' = mark
    /\ UNCHANGED <<cfg, chunks, pc, state, returned, calls, gen_failed, judge_failed,
                   all_low, judge_unparsed, nqueries, trace, search_hits,
                   indexer, disk, index, script>>

\* clear_history(): the attribute is bound to a new empty list; mark is what
\* is noted of the call
ClearHistoryAt(mark) ==
    /\ pc = "idle"
    /\ conversation_history' = << >>
    /\ snapshot' = [snapshot EXCEPT !.live = FALSE]
    /\ cleared_at' = mark
    /\ UNCHANGED <<cfg, chunks, pc, state, returned, calls, gen_failed, judge_failed,
                   all_low, judge_unparsed, nqueries, trace, search_hits,
                   indexer, disk, index, script>>

ClearHistory == ClearHistoryAt(cleared_at)

\* get_history(), called between queries
GetHistory ==
    /\ pc = "idle"
    /\ snapshot' = GetHistoryResult(conversation_history)
    /\ UNCHANGED <<cfg, chunks, conversation_history, pc, state, returned, calls,
                   gen_failed, judge_failed, all_low, judge_unparsed, nqueries,
                   trace, search_hits,
                   indexer, disk, index, script, cleared_at>>

\* The caller changes the list get_history() gave it (once per list); the
\* session list changes with it exactly when it is the same list.
CallerEditsSnapshot ==
    /\ pc = "idle"
    /\ snapshot.held /\ ~snapshot.edited
    /\ \E op \in CallerEdits :
          /\ snapshot' = [snapshot EXCEPT !.turns = Edited(snapshot.turns, op),
                                          !.edited = TRUE]
          /\ conversation_history' =
                IF snapshot.live THEN Edited(snapshot.turns, op) ELSE conversation_history
    /\ UNCHANGED <<cfg, chunks, pc, state, returned, calls, gen_failed, judge_failed,
                   all_low, judge_unparsed, nqueries, trace, search_hits,
                   indexer, disk, index, script, cleared_at>>

Next ==
    \/ \E q \in {QueryText(nqueries + 1)} : Query(q)
    \/ EmbedQuery
    \/ RetrieveChunks
    \/ BuildContext
    \/ GenerateAnswer
    \/ JudgeAnswer
    \/ PrepareRetry
    \/ FinalizeAnswer
    \/ ValidateAnswer
    \/ QueryReturn
    \/ ClearHistory

Spec == Init /\ [][Next]_vars

\* The graph runs the node it has arrived at, and query() returns when the
\* graph has ended: every node finishes provided the external call it makes
\* returns or raises.
GraphFairness ==
    /\ WF_vars(EmbedQuery) /\ WF_vars(RetrieveChunks) /\ WF_vars(BuildContext)
    /\ WF_vars(GenerateAnswer) /\ WF_vars(JudgeAnswer) /\ WF_vars(PrepareRetry)
    /\ WF_vars(FinalizeAnswer) /\ WF_vars(ValidateAnswer) /\ WF_vars(QueryReturn)

\* A session at its last question: the history is empty (no turn was eligible,
\* or clear_history was called).
LastQueryInit ==
    /\ cfg \in SpecConfigs
    /\ chunks = Repository
    /\ conversation_history = << >>
    /\ pc = "idle"
    /\ state = InitialState("", << >>)
    /\ returned = None
    /\ calls = NoCalls
    /\ gen_failed = FALSE
    /\ judge_failed = FALSE
    /\ all_low = TRUE
    /\ judge_unparsed = FALSE
    /\ snapshot = NoSnapshot
    /\ trace = << >>
    /\ search_hits = << >>
    /\ indexer = NoIndexer
    /\ disk = NoFiles
    /\ index = << >>
    /\ script = NoScript
    /\ cleared_at = -1
    /\ nqueries = MaxQueries - 1

FairSpec == LastQueryInit /\ [][Next]_vars /\ GraphFairness

----------------------------------------------------------------------------
(* One query from its first judgement on, for every answer the judge model   *)
(* may give and every setting of the confidence thresholds                   *)

DefaultHigh == 5
DefaultMedium == 3

\* Config.get(*keys, default=d); value is << >> when the key path is not found
ConfigGet(value, default) == IF value = << >> THEN default ELSE value[1]

\* judge.confidence_thresholds of config.yaml; << >> is a key that is absent
ThresholdSettings ==
    { [high |-> h, medium |-> m] : h \in {<< >>, <<2>>, <<6>>}, m \in {<< >>, <<1>>, <<6>>} }

\* The configurations with judging enabled, thresholds as AnswerJudge.__init__
\* loads them.
JudgeSpecConfigs ==
    { [judge_enabled |-> TRUE, max_retries |-> mr,
       confidence_thresholds |-> y,
       high |-> ConfigGet(y.high, DefaultHigh),
       medium |-> ConfigGet(y.medium, DefaultMedium),
       top_k |-> TopK, min_score |-> 3,
       enable_history |-> TRUE, max_history_turns |-> 5,
       require_citations |-> TRUE, min_answer_length |-> 50,
       check_grounding |-> TRUE] :
      mr \in 0..MaxRetriesBound, y \in ThresholdSettings }

\* The state in which the first query of a session reaches judge_answer: the
\* search found chunk 0, r is what the generation call did.
FirstAttempt(c, r) ==
    LET found == [i \in 1..c.top_k |-> IF i = 1 THEN [idx |-> 0, score |-> 4] ELSE MissingHit]
        embedded == EmbedQueryNode(InitialState(QueryText(1), << >>), Returns(<<"vector">>))
        retrieved == RetrieveChunksNode(embedded, c, Repository, Returns(found))
    IN GenerateAnswerNode(BuildContextNode(retrieved, c), r)

JudgeInit ==
    /\ cfg \in JudgeSpecConfigs
    /\ chunks = Repository
    /\ conversation_history = << >>
    /\ pc = "judge_answer"
    /\ \E r \in LlmBehaviours :
          /\ state = FirstAttempt(cfg, r)
          /\ gen_failed = r.raised
    /\ returned = None
    /\ calls = [embed |-> 1, search |-> 1, generate |-> 1, judge |-> 0]
    /\ judge_failed = FALSE
    /\ all_low = TRUE
    /\ judge_unparsed = FALSE
    /\ snapshot = NoSnapshot
    /\ trace = <<"embed_query", "retrieve_chunks", "build_context", "generate_answer">>
    /\ search_hits = << >>
    /\ indexer = NoIndexer
    /\ disk = NoFiles
    /\ index = << >>
    /\ script = NoScript
    /\ cleared_at = -1
    /\ nqueries = 1

JudgeAnswerAny == JudgeAnswerOn(AllJudgeBehaviours)

JudgeNext ==
    \/ JudgeAnswerAny
    \/ PrepareRetry
    \/ BuildContext
    \/ GenerateAnswer
    \/ FinalizeAnswer
    \/ ValidateAnswer
    \/ QueryReturn

JudgeSpec == JudgeInit /\ [][JudgeNext]_vars

----------------------------------------------------------------------------
(* Sessions of several queries without a judge, for every setting of the     *)
(* history length and of validation, with a caller that takes and edits      *)
(* get_history() lists                                                       *)

DefaultMaxHistoryTurns == 5

\* conversation.max_history_turns of config.yaml; << >> is a key that is absent
HistorySettings == { << >>, <<0>>, <<1>>, <<2>> }

HistorySpecConfigs ==
    { [judge_enabled |-> FALSE, max_retries |-> 0,
       high |-> DefaultHigh, medium |-> DefaultMedium,
       top_k |-> TopK, min_score |-> 3,
       enable_history |-> TRUE,
       max_history_setting |-> n,
       max_history_turns |-> ConfigGet(n, DefaultMaxHistoryTurns),
       require_citations |-> rc, min_answer_length |-> 50,
       check_grounding |-> TRUE] :
      n \in HistorySettings, rc \in BOOLEAN }

HistoryInit ==
    /\ cfg \in HistorySpecConfigs
    /\ chunks = Repository
    /\ conversation_history = << >>
    /\ pc = "idle"
    /\ state = InitialState("", << >>)
    /\ returned = None
    /\ calls = NoCalls
    /\ gen_failed = FALSE
    /\ judge_failed = FALSE
    /\ all_low = TRUE
    /\ judge_unparsed = FALSE
    /\ snapshot = NoSnapshot
    /\ trace = << >>
    /\ search_hits = << >>
    /\ indexer = NoIndexer
    /\ disk = NoFiles
    /\ index = << >>
    /\ script = NoScript
    /\ cleared_at = -1
    /\ nqueries = 0

HistoryNext ==
    \/ \E q \in {QueryText(nqueries + 1)} : Query(q)
    \/ EmbedQuery
    \/ RetrieveChunks
    \/ BuildContext
    \/ GenerateAnswer
    \/ ValidateAnswer
    \/ QueryReturn
    \/ ClearHistory
    \/ GetHistory
    \/ CallerEditsSnapshot

HistorySpec == HistoryInit /\ [][HistoryNext]_vars

----------------------------------------------------------------------------
(* Sessions with a judge and one retry, for every setting of                 *)
(* conversation.enable_history, entered where the session history holds no   *)
(* turn or two turns of earlier questions                                    *)

\* conversation.enable_history of config.yaml; << >> is a key that is absent.
\* interactive --no-history stores False under the key.
EnableHistorySettings == { << >>, <<TRUE>>, <<FALSE>> }

PromptSpecConfigs ==
    { [judge_enabled |-> TRUE, max_retries |-> 1,
       high |-> DefaultHigh, medium |-> DefaultMedium,
       top_k |-> TopK, min_score |-> 3,
       enable_history_setting |-> e,
       enable_history |-> ConfigGet(e, TRUE),
       max_history_turns |-> DefaultMaxHistoryTurns,
       require_citations |-> TRUE, min_answer_length |-> 50,
       check_grounding |-> TRUE] :
      e \in EnableHistorySettings }

\* Two turns query() has stored: a cited answer the judge scored high, and one
\* finalize_answer annotated.
EarlierTurns ==
    << [query |-> "earlier", answer |-> <<"ans_cited">>],
       [query |-> "later", answer |-> <<"ans_cited">> \o MediumConfidenceMessage] >>

PromptInit ==
    /\ cfg \in PromptSpecConfigs
    /\ chunks = Repository
    /\ conversation_history \in { << >>, EarlierTurns }
    /\ pc = "idle"
    /\ state = InitialState("", << >>)
    /\ returned = None
    /\ calls = NoCalls
    /\ gen_failed = FALSE
    /\ judge_failed = FALSE
    /\ all_low = TRUE
    /\ judge_unparsed = FALSE
    /\ snapshot = NoSnapshot
    /\ trace = << >>
    /\ search_hits = << >>
    /\ indexer = NoIndexer
    /\ disk = NoFiles
    /\ index = << >>
    /\ script = NoScript
    /\ cleared_at = -1
    /\ nqueries = 0

PromptSpec == PromptInit /\ [][Next]_vars

----------------------------------------------------------------------------
(* One query from generate_answer on, with and without a judge, for every    *)
(* kind of answer and every setting of the validation options; the validator *)
(* is also run again on the state it left                                    *)

DefaultMinAnswerLength == 50

MaxValidations == 2

\* validation.* of config.yaml; << >> is a key that is absent
ValidationSettings ==
    { [require_citations |-> rc, min_answer_length |-> ml, check_grounding |-> cg] :
        rc \in {<< >>, <<FALSE>>}, ml \in {<< >>, <<0>>, <<200>>}, cg \in {<< >>, <<FALSE>>} }

ValidationSpecConfigs ==
    { [judge_enabled |-> je, max_retries |-> 0,
       high |-> DefaultHigh, medium |-> DefaultMedium,
       top_k |-> TopK, min_score |-> 3,
       enable_history |-> TRUE, max_history_turns |-> DefaultMaxHistoryTurns,
       validation |-> v,
       require_citations |-> ConfigGet(v.require_citations, TRUE),
       min_answer_length |-> ConfigGet(v.min_answer_length, DefaultMinAnswerLength),
       check_grounding |-> ConfigGet(v.check_grounding, TRUE)] :
      je \in BOOLEAN, v \in ValidationSettings }

\* The state in which the first query of a session reaches generate_answer: r
\* is what the embedding model did, the search found chunk 0.
ContextBuilt(c, r) ==
    LET hits == [i \in 1..c.top_k |-> IF i = 1 THEN [idx |-> 0, score |-> 4] ELSE MissingHit]
        embedded == EmbedQueryNode(InitialState(QueryText(1), << >>), r)
    IN BuildContextNode(RetrieveChunksNode(embedded, c, Repository, Returns(hits)), c)

ValidationInit ==
    /\ cfg \in ValidationSpecConfigs
    /\ chunks = Repository
    /\ conversation_history = << >>
    /\ pc = "generate_answer"
    /\ \E r \in EmbedBehaviours :
          /\ state = ContextBuilt(cfg, r)
          /\ calls = [embed |-> 1, search |-> IF r.raised THEN 0 ELSE 1,
                      generate |-> 0, judge |-> 0]
    /\ returned = None
    /\ gen_failed = FALSE
    /\ judge_failed = FALSE
    /\ all_low = TRUE
    /\ judge_unparsed = FALSE
    /\ snapshot = NoSnapshot
    /\ trace = <<"embed_query", "retrieve_chunks", "build_context">>
    /\ search_hits = << >>
    /\ indexer = NoIndexer
    /\ disk = NoFiles
    /\ index = << >>
    /\ script = NoScript
    /\ cleared_at = -1
    /\ nqueries = 1

GenerateAnswerAny == GenerateAnswerOn(AllLlmBehaviours)

\* _validate_answer applied once more to the state it returned
Revalidate ==
    /\ pc = "END"
    /\ Cardinality(Positions("validate_answer", trace)) < MaxValidations
    /\ state' = ValidateAnswerNode(state, cfg)
    /\ trace' = Append(trace, "validate_answer")
    /\ UNCHANGED <<cfg, chunks, conversation_history, pc, returned, calls, gen_failed,
                   judge_failed, all_low, judge_unparsed, snapshot, search_hits, nqueries,
                   indexer, disk, index, script, cleared_at>>

ValidationNext ==
    \/ GenerateAnswerAny
    \/ JudgeAnswer
    \/ FinalizeAnswer
    \/ ValidateAnswer
    \/ Revalidate
    \/ QueryReturn

ValidationSpec == ValidationInit /\ [][ValidationNext]_vars

----------------------------------------------------------------------------
(* One query without a judge, for every answer of the index to the question  *)
(* and every setting of retrieval.min_score                                  *)

DefaultMinScore == 3

\* retrieval.min_score of config.yaml in tenths; << >> is a key that is absent.
\* -10 is the lowest cosine similarity.
MinScoreSettings == { << >>, <<0>>, <<-10>> }

RetrievalSpecConfigs ==
    { [judge_enabled |-> FALSE, max_retries |-> 0,
       high |-> DefaultHigh, medium |-> DefaultMedium,
       top_k |-> TopK,
       min_score_setting |-> s,
       min_score |-> ConfigGet(s, DefaultMinScore),
       enable_history |-> TRUE, max_history_turns |-> DefaultMaxHistoryTurns,
       require_citations |-> TRUE, min_answer_length |-> DefaultMinAnswerLength,
       check_grounding |-> TRUE] :
      s \in MinScoreSettings }

\* search_hits is what index.search returns for the question of the session.
RetrievalInit ==
    /\ cfg \in RetrievalSpecConfigs
    /\ chunks = Repository
    /\ conversation_history = << >>
    /\ pc = "idle"
    /\ state = InitialState("", << >>)
    /\ returned = None
    /\ calls = NoCalls
    /\ gen_failed = FALSE
    /\ judge_failed = FALSE
    /\ all_low = TRUE
    /\ judge_unparsed = FALSE
    /\ snapshot = NoSnapshot
    /\ trace = << >>
    /\ search_hits \in SearchResults(cfg.top_k)
    /\ indexer = NoIndexer
    /\ disk = NoFiles
    /\ index = << >>
    /\ script = NoScript
    /\ cleared_at = -1
    /\ nqueries = MaxQueries - 1

RetrieveChunksFound ==
    RetrieveChunksOn({ Returns(search_hits) } \cup { Raises(e) : e \in ExcMsgs })

RetrievalNext ==
    \/ \E q \in {QueryText(nqueries + 1)} : Query(q)
    \/ EmbedQuery
    \/ RetrieveChunksFound
    \/ BuildContext
    \/ GenerateAnswer
    \/ ValidateAnswer
    \/ QueryReturn

RetrievalSpec == RetrievalInit /\ [][RetrievalNext]_vars

----------------------------------------------------------------------------
(* `app.py index` on a repository of a few files, then the construction of   *)
(* the pipeline from the files the indexing run left                         *)

\* The files of an earlier indexing run over one file of one chunk.
OldFiles ==
    [index_exists |-> TRUE,
     index |-> <<Normalize(Encode(FileChunk("old/m.py", 1).text))>>,
     metadata_exists |-> TRUE,
     metadata |-> MetadataFile(FileChunks("old/m.py", 1))]

IndexerInit ==
    /\ cfg \in { c \in SpecConfigs : ~c.judge_enabled }
    /\ chunks = << >>
    /\ conversation_history = << >>
    /\ pc = "not_constructed"
    /\ state = InitialState("", << >>)
    /\ returned = None
    /\ calls = NoCalls
    /\ gen_failed = FALSE
    /\ judge_failed = FALSE
    /\ all_low = TRUE
    /\ judge_unparsed = FALSE
    /\ snapshot = NoSnapshot
    /\ trace = << >>
    /\ search_hits = << >>
    /\ indexer \in { NewIndexer(f) : f \in RepositoryFiles }
    /\ disk \in { NoFiles, OldFiles }
    /\ index = << >>
    /\ script = NoScript
    /\ cleared_at = -1
    /\ nqueries = 0

\* one turn of the loop over the files: the chunks of a file with content are
\* added to self.chunks
ChunkFile ==
    /\ indexer.pc = "chunk_files"
    /\ indexer.next_file <= Len(indexer.files)
    /\ indexer' =
          [indexer EXCEPT
             !.chunks = @ \o FileChunks(FilePath(indexer.next_file),
                                        indexer.files[indexer.next_file]),
             !.next_file = @ + 1]
    /\ UNCHANGED <<cfg, chunks, conversation_history, pc, state, returned, calls,
                   gen_failed, judge_failed, all_low, judge_unparsed, snapshot, trace,
                   search_hits, disk, index, nqueries, script, cleared_at>>

\* after the loop: index_repository returns when no chunk was created
CheckChunks ==
    /\ indexer.pc = "chunk_files"
    /\ indexer.next_file > Len(indexer.files)
    /\ indexer' = [indexer EXCEPT !.pc = IF indexer.chunks = << >>
                                         THEN "returned_empty"
                                         ELSE "generate_embeddings"]
    /\ UNCHANGED <<cfg, chunks, conversation_history, pc, state, returned, calls,
                   gen_failed, judge_failed, all_low, judge_unparsed, snapshot, trace,
                   search_hits, disk, index, nqueries, script, cleared_at>>

\* _generate_embeddings; an exception of model.encode ends index_repository
GenerateEmbeddings ==
    /\ indexer.pc = "generate_embeddings"
    /\ \E raised \in BOOLEAN :
          indexer' =
             IF raised THEN [indexer EXCEPT !.pc = "failed"]
             ELSE [indexer EXCEPT
                     !.embeddings =
                         EncodeBatches([ i \in 1..Len(indexer.chunks) |->
                                           indexer.chunks[i].text ], 1),
                     !.pc = "build_faiss_index"]
    /\ UNCHANGED <<cfg, chunks, conversation_history, pc, state, returned, calls,
                   gen_failed, judge_failed, all_low, judge_unparsed, snapshot, trace,
                   search_hits, disk, index, nqueries, script, cleared_at>>

\* _build_faiss_index: the embeddings are normalized in place, added to a new
\* index in their order, and the index is written
BuildFaissIndex ==
    /\ indexer.pc = "build_faiss_index"
    /\ LET normalized == [ i \in 1..Len(indexer.embeddings) |->
                             Normalize(indexer.embeddings[i]) ]
       IN /\ indexer' = [indexer EXCEPT !.embeddings = normalized,
                                        !.pc = "save_metadata"]
          /\ disk' = [disk EXCEPT !.index_exists = TRUE, !.index = normalized]
    /\ UNCHANGED <<cfg, chunks, conversation_history, pc, state, returned, calls,
                   gen_failed, judge_failed, all_low, judge_unparsed, snapshot, trace,
                   search_hits, index, nqueries, script, cleared_at>>

\* _save_metadata, and the return of index_repository
SaveMetadata ==
    /\ indexer.pc = "save_metadata"
    /\ disk' = [disk EXCEPT !.metadata_exists = TRUE,
                            !.metadata = MetadataFile(indexer.chunks)]
    /\ indexer' = [indexer EXCEPT !.pc = "done"]
    /\ UNCHANGED <<cfg, chunks, conversation_history, pc, state, returned, calls,
                   gen_failed, judge_failed, all_low, judge_unparsed, snapshot, trace,
                   search_hits, index, nqueries, script, cleared_at>>

\* RAGPipeline.__init__ once the indexing run has ended: _load_index_and_metadata
\* reads the index and appends the record of every line; a file that is
\* missing or a line json.loads rejects raises FileNotFoundError.
LoadIndexAndMetadata ==
    /\ pc = "not_constructed"
    /\ indexer.pc \in {"done", "returned_empty", "failed"}
    /\ LET lines == ReadLines(disk.metadata)
           loads == disk.index_exists /\ disk.metadata_exists
                    /\ \A i \in 1..Len(lines) : WellFormed(lines[i])
       IN /\ pc' = IF loads THEN "idle" ELSE "load_failed"
          /\ index' = IF disk.index_exists THEN disk.index ELSE index
          /\ chunks' = IF loads
                       THEN [ i \in 1..Len(lines) |-> JsonLoads(lines[i]) ]
                       ELSE chunks
    /\ UNCHANGED <<cfg, conversation_history, state, returned, calls, gen_failed,
                   judge_failed, all_low, judge_unparsed, snapshot, trace,
                   search_hits, indexer, disk, nqueries, script, cleared_at>>

IndexerNext ==
    \/ ChunkFile
    \/ CheckChunks
    \/ GenerateEmbeddings
    \/ BuildFaissIndex
    \/ SaveMetadata
    \/ LoadIndexAndMetadata

IndexerSpec == IndexerInit /\ [][IndexerNext]_vars

----------------------------------------------------------------------------
(* One query with a judge from generate_answer on, where what the language   *)
(* model and the judge model do at each attempt is fixed beforehand          *)

\* The judge model scores an attempt 2, 3 or 5, with feedback.
AttemptJudgeBehaviours ==
    { Returns([shape |-> "json", score |-> s, feedback |-> <<"fb">>]) : s \in {2, 3, 5} }

\* The language model returns one of the two answers, or the call fails.
AttemptLlmBehaviours ==
    { Returns(a) : a \in GenAnswers } \cup { Raises(<<"boom">>) }

AttemptSpecConfigs ==
    { c \in SpecConfigs : c.judge_enabled /\ <<c.high, c.medium>> \in {<<5, 3>>, <<6, 4>>} }

AttemptInit ==
    /\ cfg \in AttemptSpecConfigs
    /\ chunks = Repository
    /\ conversation_history = << >>
    /\ pc = "generate_answer"
    /\ state = ContextBuilt(cfg, Returns(<<"vector">>))
    /\ returned = None
    /\ calls = [embed |-> 1, search |-> 1, generate |-> 0, judge |-> 0]
    /\ gen_failed = FALSE
    /\ judge_failed = FALSE
    /\ all_low = TRUE
    /\ judge_unparsed = FALSE
    /\ snapshot = NoSnapshot
    /\ trace = <<"embed_query", "retrieve_chunks", "build_context">>
    /\ search_hits = << >>
    /\ indexer = NoIndexer
    /\ disk = NoFiles
    /\ index = << >>
    /\ script \in { [llm |-> l, judge |-> j] :
                      l \in [1..(cfg.max_retries + 1) -> AttemptLlmBehaviours],
                      j \in [1..(cfg.max_retries + 1) -> AttemptJudgeBehaviours] }
    /\ cleared_at = -1
    /\ nqueries = 1

\* generate_answer and judge_answer, the models doing what is fixed for the attempt
GenerateAnswerScripted == GenerateAnswerOn({ script.llm[calls.generate + 1] })

JudgeAnswerScripted == JudgeAnswerOn({ script.judge[calls.generate] })

AttemptNext ==
    \/ GenerateAnswerScripted
    \/ JudgeAnswerScripted
    \/ PrepareRetry
    \/ BuildContext
    \/ FinalizeAnswer
    \/ ValidateAnswer
    \/ QueryReturn

AttemptSpec == AttemptInit /\ [][AttemptNext]_vars

----------------------------------------------------------------------------
(* Sessions without a judge in which every call of clear_history is noted    *)

ClearInit ==
    /\ cfg \in HistorySpecConfigs
    /\ chunks = Repository
    /\ conversation_history = << >>
    /\ pc = "idle"
    /\ state = InitialState("", << >>)
    /\ returned = None
    /\ calls = NoCalls
    /\ gen_failed = FALSE
    /\ judge_failed = FALSE
    /\ all_low = TRUE
    /\ judge_unparsed = FALSE
    /\ snapshot = NoSnapshot
    /\ trace = << >>
    /\ search_hits = << >>
    /\ indexer = NoIndexer
    /\ disk = NoFiles
    /\ index = << >>
    /\ script = NoScript
    /\ cleared_at = -1
    /\ nqueries = 0

\* the `clear` command of the interactive session
ClearHistoryNoted == ClearHistoryAt(nqueries)

ClearNext ==
    \/ \E q \in {QueryText(nqueries + 1)} : Query(q)
    \/ EmbedQuery
    \/ RetrieveChunks
    \/ BuildContext
    \/ GenerateAnswer
    \/ ValidateAnswer
    \/ QueryReturn
    \/ ClearHistoryNoted
    \/ GetHistory

ClearSpec == ClearInit /\ [][ClearNext]_vars

----------------------------------------------------------------------------
(* Vocabulary of the properties *)

\* p is a prefix of the text t
IsPrefix(p, t) == Len(p) <= Len(t) /\ SubSeq(t, 1, Len(p)) = p

\* s is a suffix of the list t
IsSuffix(s, t) == Len(s) <= Len(t) /\ SubSeq(t, Len(t) - Len(s) + 1, Len(t)) = s

\* the turn of the query in flight
Turn == [query |-> state.query, answer |-> state.answer]

\* n, for the n-th question of the session
QueryIndex(q) == CHOOSE n \in 1..MaxQueries : QueryText(n) = q

\* the graph has run to its end and query() has returned
Returned == pc = "idle" /\ returned # None

\* the nodes after generate_answer, and the states after the graph
AfterGenerateStages ==
    {"judge_answer", "prepare_retry", "finalize_answer", "validate_answer", "END", "idle"}

AfterFinalizeStages == {"validate_answer", "END", "idle"}

\* error was set by embed_query, retrieve_chunks or build_context
UpstreamErrorPrefixes ==
    { "Error embedding query: ", "Error retrieving chunks: ",
      "Error building context: ", NoRelevantMessage(cfg.min_score)[1],
      "No relevant information found in the repository." }

UpstreamError == Truthy(state.error) /\ Head(state.error) \in UpstreamErrorPrefixes

\* the embedding call or the vector search raised
EmbedOrSearchRaised ==
    /\ Truthy(state.error)
    /\ Head(state.error) \in {"Error embedding query: ", "Error retrieving chunks: "}

\* no token of a model-generated answer occurs in the text
NoGeneratedText(t) == \A i \in 1..Len(t) : <<t[i]>> \notin GenAnswers

\* the text ends with one of the two confidence annotations
EndsWithAnnotation(t) ==
    /\ Len(t) >= 2
    /\ <<t[Len(t)]>> \in {MediumConfidenceMessage, LowConfidenceMessage}

\* the retry-feedback preamble occurs in the prompt
HasPreamble(prompt) ==
    \E i \in 1..Len(prompt) :
        prompt[i] = "Note: You tried to answer this before, and gave this answer '"

\* the preamble quoting an answer and a feedback text
Preamble(answer, feedback) ==
    <<"Note: You tried to answer this before, and gave this answer '">>
    \o answer
    \o <<"' but it was not good enough because of ">>
    \o feedback
    \o <<". Try again and take into consideration this feedback. ...\n\n">>

\* the first position of a token in a text, 0 when it does not occur
FirstPosition(tok, text) ==
    IF Positions(tok, text) = {} THEN 0
    ELSE CHOOSE i \in Positions(tok, text) : \A j \in Positions(tok, text) : i <= j

\* the position of the k-th occurrence of a token in a text
NthPosition(tok, text, k) ==
    CHOOSE i \in Positions(tok, text) :
        Cardinality({ j \in Positions(tok, text) : j < i }) = k - 1

\* the token occurs in the text
Mentions(text, tok) == Positions(tok, text) # {}

\* validate_answer has run on the state and error did not make it skip the checks
ChecksRan ==
    /\ pc \in {"END", "idle"}
    /\ Positions("validate_answer", trace) # {}
    /\ ~Truthy(state.error)

\* the nodes of one retry
RetryLoop == <<"prepare_retry", "build_context", "generate_answer", "judge_answer">>

RECURSIVE Repeated(_, _)
Repeated(s, n) == IF n = 0 THEN << >> ELSE s \o Repeated(s, n - 1)

\* the nodes a query with r retries runs, in order
StagePath(judging, r) ==
    <<"embed_query", "retrieve_chunks", "build_context", "generate_answer">>
    \o (IF judging
        THEN <<"judge_answer">> \o Repeated(RetryLoop, r) \o <<"finalize_answer">>
        ELSE << >>)
    \o <<"validate_answer">>

----------------------------------------------------------------------------
(* C1: with judging enabled, every judge_answer step is followed by          *)
(* prepare_retry exactly when the score it left is <= 2 and retry_count is   *)
(* below max_retries, and by finalize_answer in every other case.            *)

C1_RetryIffLowAndBudget ==
    [][ pc = "judge_answer" =>
          /\ cfg.judge_enabled
          /\ pc' \in {"prepare_retry", "finalize_answer"}
          /\ (pc' = "prepare_retry") <=>
                (state'.judge_score[1] <= 2 /\ state'.retry_count < cfg.max_retries)
      ]_vars

C1_Witness ==
    /\ pc = "prepare_retry"
    /\ state.judge_score[1] <= 2
    /\ state.retry_count < cfg.max_retries

----------------------------------------------------------------------------
(* C2: retry_count never exceeds max_retries; every prepare_retry step adds  *)
(* exactly 1 to retry_count and sets is_retry; the generation model is       *)
(* invoked at most max_retries + 1 times per query.                          *)

C2_RetryCountBounded ==
    /\ [](/\ state.retry_count <= cfg.max_retries
          /\ calls.generate <= cfg.max_retries + 1)
    /\ [][ pc = "prepare_retry" =>
             /\ state'.retry_count = state.retry_count + 1
             /\ state'.is_retry
         ]_vars

C2_Witness ==
    /\ cfg.max_retries = MaxRetriesBound
    /\ state.retry_count = cfg.max_retries
    /\ state.is_retry
    /\ calls.generate = cfg.max_retries + 1

----------------------------------------------------------------------------
(* C3: with judging enabled and no error, a query whose last judged score is *)
(* <= 2 when finalize_answer runs returns exactly the cannot-help message.   *)

C3_LowScoreReturnsCannotHelp ==
    (/\ cfg.judge_enabled
     /\ pc \in AfterFinalizeStages
     /\ state.judge_score # NoScore
     /\ ~Truthy(state.error)
     /\ state.judge_score[1] <= 2)
    => /\ state.answer = CannotHelpMessage
       /\ Returned => returned = CannotHelpMessage

C3_Witness ==
    /\ Returned
    /\ cfg.judge_enabled
    /\ state.error = None
    /\ state.judge_score[1] <= 2
    /\ state.retry_count >= 1
    /\ returned = CannotHelpMessage

----------------------------------------------------------------------------
(* C4: when every judged attempt of a query scored <= 2, the query made      *)
(* exactly max_retries retries, max_retries + 1 generation calls and         *)
(* max_retries + 1 judge calls, and returned the cannot-help message.        *)

C4_AllLowExhaustsRetries ==
    (cfg.judge_enabled /\ Returned /\ all_low)
    => /\ state.retry_count = cfg.max_retries
       /\ calls.generate = cfg.max_retries + 1
       /\ calls.judge = cfg.max_retries + 1
       /\ returned = CannotHelpMessage

C4_Witness ==
    /\ cfg.judge_enabled /\ Returned /\ all_low
    /\ cfg.max_retries = 1
    /\ state.retry_count = 1
    /\ calls.generate = 2
    /\ calls.judge = 2
    /\ returned = CannotHelpMessage

----------------------------------------------------------------------------
(* C5: once error holds a non-empty value, every later step of the query     *)
(* leaves it at that value.                                                  *)

C5_ErrorIsKept ==
    [][ (pc # "idle" /\ Truthy(state.error)) => state'.error = state.error ]_vars

C5_Witness ==
    /\ Returned
    /\ Truthy(state.error)
    /\ calls.embed = 1 /\ calls.search = 1 /\ calls.generate = 1

----------------------------------------------------------------------------
(* C6: when embed_query, retrieve_chunks or build_context has set error, the *)
(* rest of the query invokes neither the generation model nor the judge      *)
(* model, selects no retry, and its answer is the error text: generate_answer*)
(* stores the error text as the answer, and what is returned starts with it  *)
(* and holds no model-generated text.                                        *)

C6_UpstreamErrorFastFails ==
    UpstreamError =>
       /\ calls.generate = 0
       /\ calls.judge = 0
       /\ state.retry_count = 0 /\ ~state.is_retry
       /\ pc # "prepare_retry"
       /\ pc \in {"judge_answer", "finalize_answer"} => state.answer = state.error
       /\ pc \in AfterGenerateStages =>
             IsPrefix(state.error, state.answer) /\ NoGeneratedText(state.answer)
       /\ Returned => IsPrefix(state.error, returned) /\ NoGeneratedText(returned)

C6_Witness ==
    /\ Returned
    /\ cfg.judge_enabled
    /\ state.error = NoRelevantMessage(cfg.min_score)
    /\ returned = state.error

----------------------------------------------------------------------------
(* C7: when the embedding or the vector-search call raised, query() returns  *)
(* the error description held in error, followed by the validation note when *)
(* judging is disabled and by the confidence annotation of score 5 when      *)
(* judging is enabled; nothing is appended exactly when judging is enabled   *)
(* and the high threshold is at most 5.                                      *)

\* The claim as made: for every configuration the returned text is the error
\* description and nothing else.
C7_ReturnsErrorLiterally ==
    (Returned /\ EmbedOrSearchRaised) => returned = state.error

C7_ReturnsErrorThenNotes ==
    (Returned /\ EmbedOrSearchRaised) =>
       returned =
         state.error \o
           (IF ~cfg.judge_enabled
            THEN <<"\n\n[Validation Note: ", "Validation skipped due to error: ">>
                 \o state.error \o <<"]">>
            ELSE IF cfg.high <= 5 THEN << >>
            ELSE IF cfg.medium <= 5 THEN MediumConfidenceMessage
            ELSE LowConfidenceMessage)

C7_Witness ==
    /\ Returned
    /\ cfg.judge_enabled /\ cfg.high <= 5
    /\ IsPrefix(<<"Error retrieving chunks: ">>, state.error)
    /\ returned = state.error

----------------------------------------------------------------------------
(* C8: when a generation call raised, error is set, the failed attempt is    *)
(* not scored by the judge model, no retry is selected after it, the answer  *)
(* is the failure description and not the cannot-help message, and the turn  *)
(* does not enter the history.                                               *)

C8_GenerationFailureIsTerminal ==
    gen_failed =>
       /\ state.error # None
       /\ IsPrefix(<<"Error generating answer: ">>, state.answer)
       /\ calls.judge < calls.generate
       /\ pc # "prepare_retry"
       /\ state.answer # CannotHelpMessage
       /\ Returned => conversation_history \in {<< >>, state.conversation_history}

----------------------------------------------------------------------------
(* C9: every chunk in retrieved_chunks has a score >= min_score; when the    *)
(* search returned and no hit survived, error is the "No relevant            *)
(* information found" message and neither model is invoked.                  *)

C9_RetrievedAboveThreshold ==
    /\ \A i \in 1..Len(state.retrieved_chunks) :
           state.retrieved_chunks[i].score >= cfg.min_score
    /\ (/\ calls.search = 1
        /\ state.retrieved_chunks = << >>
        /\ ~IsPrefix(<<"Error retrieving chunks: ">>, state.error))
       => /\ state.error = NoRelevantMessage(cfg.min_score)
          /\ calls.generate = 0 /\ calls.judge = 0
          /\ pc \in AfterGenerateStages => IsPrefix(state.error, state.answer)

C9_Witness ==
    /\ Returned
    /\ calls.search = 1
    /\ state.retrieved_chunks = << >>
    /\ state.error = NoRelevantMessage(cfg.min_score)

----------------------------------------------------------------------------
(* C10: when the judge evaluation raises, judge_answer changes nothing but   *)
(* judge_score = 4 and judge_feedback = None and is followed by              *)
(* finalize_answer; error stays unset, and the query returns the answer that *)
(* was judged followed by the confidence annotation of score 4, never the    *)
(* cannot-help message.                                                      *)

C10_JudgeFailureIsNeutral ==
    /\ [][ (pc = "judge_answer" /\ judge_failed') =>
             /\ state' = [state EXCEPT !.judge_score = <<4>>, !.judge_feedback = None]
             /\ pc' = "finalize_answer"
         ]_vars
    /\ [][ (pc = "finalize_answer" /\ judge_failed) =>
             /\ state'.error = state.error
             /\ state'.answer =
                  state.answer \o
                    (IF cfg.high <= 4 THEN << >>
                     ELSE IF cfg.medium <= 4 THEN MediumConfidenceMessage
                     ELSE LowConfidenceMessage)
         ]_vars
    /\ [](judge_failed =>
             /\ ~Truthy(state.error)
             /\ pc # "prepare_retry"
             /\ state.answer # CannotHelpMessage
             /\ Returned => returned = state.answer)

C10_Witness ==
    /\ Returned
    /\ judge_failed
    /\ state.judge_score = <<4>> /\ state.judge_feedback = None
    /\ state.error = None
    /\ returned = <<"ans_cited">> \o MediumConfidenceMessage

----------------------------------------------------------------------------
(* C11: whatever the judge model does (a structured answer, free text, a     *)
(* malformed answer, an exception), the score evaluate_answer returns is in  *)
(* 1..6, and the feedback it returns is None whenever that score is above 2. *)

C11_ScoreInRangeFeedbackOnlyLow ==
    state.judge_score # NoScore =>
       /\ state.judge_score[1] \in 1..6
       /\ state.judge_score[1] > 2 => state.judge_feedback = None

C11_Witness ==
    /\ pc = "finalize_answer"
    /\ calls.judge = 1
    /\ state.judge_score = <<6>>
    /\ state.judge_feedback = None

----------------------------------------------------------------------------
(* C12: when the judge model's answer has neither a usable score field nor a *)
(* match of the free-text score pattern, judge_answer changes nothing but    *)
(* judge_score = 4 and judge_feedback = None and is followed by              *)
(* finalize_answer; no error is set, no retry is selected, and the query     *)
(* returns the judged answer with the annotation of score 4.                 *)

C12_UnparseableIsNeutral ==
    /\ [][ (pc = "judge_answer" /\ judge_unparsed') =>
             /\ state' = [state EXCEPT !.judge_score = <<4>>, !.judge_feedback = None]
             /\ pc' = "finalize_answer"
         ]_vars
    /\ [][ (pc = "finalize_answer" /\ judge_unparsed) =>
             /\ state'.error = state.error
             /\ state'.answer = state.answer \o
                    (IF cfg.high <= 4 THEN << >>
                     ELSE IF cfg.medium <= 4 THEN MediumConfidenceMessage
                     ELSE LowConfidenceMessage)
         ]_vars
    /\ [](judge_unparsed =>
             /\ state.judge_score = <<4>> /\ state.judge_feedback = None
             /\ ~Truthy(state.error)
             /\ pc \in {"finalize_answer", "validate_answer", "END", "idle"}
             /\ Returned => returned = state.answer /\ returned # CannotHelpMessage)

C12_Witness ==
    /\ Returned
    /\ judge_unparsed /\ ~judge_failed
    /\ state.judge_score = <<4>> /\ state.judge_feedback = None
    /\ state.error = None
    /\ cfg.confidence_thresholds = [high |-> << >>, medium |-> << >>]
    /\ returned = <<"ans_plain">> \o MediumConfidenceMessage

----------------------------------------------------------------------------
(* C13: when finalize_answer does not substitute the cannot-help message, it *)
(* leaves the answer it found (the generated answer) followed by nothing if  *)
(* score >= high, by the "Low confidence" note if medium <= score < high, by *)
(* the "Very low confidence" warning if score < medium, where high and       *)
(* medium are the configured thresholds, 5 and 3 when they are not set.      *)

C13_AnnotationByThresholds ==
    [][ (pc = "finalize_answer" /\ state'.answer # CannotHelpMessage) =>
          LET y == cfg.confidence_thresholds
              high == IF y.high = << >> THEN 5 ELSE y.high[1]
              medium == IF y.medium = << >> THEN 3 ELSE y.medium[1]
              score == state.judge_score[1]
          IN /\ ~gen_failed => state.answer \in GenAnswers
             /\ state'.answer = state.answer \o
                    (IF score >= high THEN << >>
                     ELSE IF score >= medium THEN MediumConfidenceMessage
                     ELSE LowConfidenceMessage)
      ]_vars

C13_Witness ==
    /\ pc = "validate_answer"
    /\ cfg.confidence_thresholds = [high |-> << >>, medium |-> <<6>>]
    /\ state.judge_score = <<4>>
    /\ state.answer = <<"ans_cited">> \o LowConfidenceMessage

----------------------------------------------------------------------------
(* C14: with judging enabled, a query that returns with no error and a last  *)
(* judge score <= 2 returns the cannot-help message or a text that ends with *)
(* a low-confidence annotation, never a bare generated answer, for every     *)
(* max_retries and every setting of the thresholds.                          *)

C14_LowScoreNeverUnmarked ==
    (/\ Returned
     /\ cfg.judge_enabled
     /\ ~Truthy(state.error)
     /\ state.judge_score[1] <= 2)
    => /\ returned = CannotHelpMessage \/ EndsWithAnnotation(returned)
       /\ returned \notin GenAnswers

C14_Witness ==
    /\ Returned
    /\ cfg.max_retries = 0 /\ cfg.high = 2
    /\ state.error = None
    /\ state.judge_score = <<2>>
    /\ calls.generate = 1
    /\ returned = CannotHelpMessage

----------------------------------------------------------------------------
(* C15: when query() updates the history, the turn of the query is appended  *)
(* (and the list then truncated) if validation_passed is true and error is   *)
(* not set, and the history is left exactly as it was in every other case.   *)

C15_HistoryAppendedIffValid ==
    [][ pc = "END" =>
          IF state.validation_passed /\ state.error = None
          THEN /\ IsSuffix(conversation_history', Append(conversation_history, Turn))
               /\ cfg.max_history_turns > 0 =>
                     conversation_history'[Len(conversation_history')] = Turn
          ELSE conversation_history' = conversation_history
      ]_vars

----------------------------------------------------------------------------
(* C16: for every max_history_turns N >= 0 the session history never holds   *)
(* more than N turns, its turns are in the order of their queries, and after *)
(* a query whose turn was eligible the last turn is that query's.            *)

C16_HistoryBounded ==
    /\ Len(conversation_history) <= cfg.max_history_turns
    /\ \A i, j \in 1..Len(conversation_history) :
          i < j => QueryIndex(conversation_history[i].query)
                      < QueryIndex(conversation_history[j].query)
    /\ (/\ Returned /\ state.validation_passed /\ ~Truthy(state.error)
        /\ cfg.max_history_turns > 0 /\ conversation_history # << >>)
       => conversation_history[Len(conversation_history)] = Turn

----------------------------------------------------------------------------
(* C17: the list get_history() returns and the history in a query's state    *)
(* are copies: a caller that adds a turn to, removes a turn from or reverses *)
(* the list it holds changes neither the session history nor the state, and  *)
(* a change of the session history (the append after a query, clear_history) *)
(* changes neither a list handed out earlier nor the history in the state.   *)

C17_SnapshotsAreCopies ==
    /\ [][ (snapshot.held /\ ~snapshot.edited /\ snapshot'.edited) =>
             /\ snapshot'.turns \in { Edited(snapshot.turns, op) : op \in CallerEdits }
             /\ conversation_history' = conversation_history
             /\ state' = state
         ]_vars
    /\ [][ conversation_history' # conversation_history =>
             /\ snapshot'.turns = snapshot.turns
             /\ state'.conversation_history = state.conversation_history
         ]_vars

C17_Witness ==
    /\ Returned
    /\ snapshot.held /\ snapshot.edited
    /\ Len(snapshot.turns) = 2
    /\ snapshot.turns[1].query = "q1" /\ snapshot.turns[2].query = "caller"
    /\ Len(conversation_history) = 2
    /\ conversation_history[1].query = "q1" /\ conversation_history[2].query = "q2"

----------------------------------------------------------------------------
(* C18: the session history changes in two kinds of step only: when query()  *)
(* updates it after validate_answer has run, to a suffix of the old history  *)
(* with the one turn of the query appended, and between queries when         *)
(* clear_history empties it. No node of the graph changes it, in a first     *)
(* attempt or in a retry.                                                    *)

C18_HistoryChangesOnlyBetweenQueries ==
    [][ conversation_history' # conversation_history =>
          \/ /\ pc = "END" /\ pc' = "idle"
             /\ IsSuffix(conversation_history', Append(conversation_history, Turn))
          \/ /\ pc = "idle" /\ pc' = "idle"
             /\ conversation_history' = << >>
      ]_vars

C18_Witness ==
    /\ Returned
    /\ state.retry_count = 1
    /\ state.conversation_history = << >>
    /\ conversation_history = <<Turn>>

----------------------------------------------------------------------------
(* C19: when a query enters the graph its state holds the question, a copy   *)
(* of the session history, and nothing else of earlier queries: retry_count  *)
(* 0, is_retry false, error, judge score and judge feedback unset, no        *)
(* retrieved chunks, no embedding, empty context and answer, validation not  *)
(* passed.                                                                   *)

C19_QueryStartsFresh ==
    pc = "embed_query" =>
       state = [query |-> QueryText(nqueries),
                conversation_history |-> conversation_history,
                query_embedding |-> None, retrieved_chunks |-> << >>,
                context |-> << >>, answer |-> << >>,
                validation_passed |-> FALSE, validation_message |-> << >>,
                judge_score |-> NoScore, judge_feedback |-> None,
                retry_count |-> 0, is_retry |-> FALSE, error |-> None]

C19_Witness ==
    /\ pc = "embed_query"
    /\ nqueries = 2
    /\ state.query = "q2"
    /\ state.retry_count = 0 /\ state.error = None /\ state.answer = << >>
    /\ Len(state.conversation_history) = 1

----------------------------------------------------------------------------
(* C20: the prompt of a state whose is_retry is false holds no retry-feedback*)
(* preamble; the prompt build_context assembles when is_retry is true and    *)
(* the judge feedback is neither None nor empty starts with the preamble,    *)
(* which quotes the answer of the previous attempt and the judge feedback.   *)

\* The claim as made: the preamble is there whenever is_retry is true and the
\* feedback is not None.
C20_PreambleWhenFeedbackNotNone ==
    /\ ~state.is_retry => ~HasPreamble(state.context)
    /\ (pc = "generate_answer" /\ state.is_retry /\ state.judge_feedback # None)
       => IsPrefix(Preamble(state.answer, state.judge_feedback), state.context)

C20_PreambleWhenFeedbackHasText ==
    /\ ~state.is_retry => ~HasPreamble(state.context)
    /\ (pc = "generate_answer" /\ state.is_retry /\ state.judge_feedback # None
        /\ state.judge_feedback # << >>)
       => IsPrefix(Preamble(state.answer, state.judge_feedback), state.context)

C20_Witness ==
    /\ pc = "generate_answer"
    /\ state.is_retry
    /\ state.answer = <<"ans_plain">>
    /\ state.judge_feedback = <<"fb">>
    /\ IsPrefix(Preamble(<<"ans_plain">>, <<"fb">>), state.context)

----------------------------------------------------------------------------
(* C21: in every prompt build_context has assembled, the retry-feedback      *)
(* preamble (when there is one) comes first, then the conversation history,  *)
(* then one evidence block per retrieved chunk in the order of the chunks,   *)
(* then the question; the history lists the turns of the state's history     *)
(* oldest first, each with its query and its answer as stored; and there is  *)
(* a history section exactly when the history is not empty and               *)
(* conversation.enable_history is not false.                                 *)

C21_PromptPartsInOrder ==
    state.context # << >> =>
       LET p == state.context
           h == state.conversation_history
           cs == state.retrieved_chunks
           pre == FirstPosition("Note: You tried to answer this before, and gave this answer '", p)
           hist == FirstPosition("\n\n--- CONVERSATION HISTORY ---\n", p)
           endh == FirstPosition("\n--- END OF HISTORY ---\n", p)
           ev == FirstPosition("\n\nCode Context:\n", p)
           qu == FirstPosition("\n\n--- CURRENT USER QUERY ---\nQuestion: ", p)
       IN /\ ev > 0 /\ qu > ev /\ p[qu + 1] = state.query
          /\ pre > 0 => (pre < ev /\ (hist > 0 => pre < hist))
          /\ hist > 0 => (hist < endh /\ endh < ev)
          /\ Cardinality(Positions("[Chunk ", p)) = Len(cs)
          /\ \A k \in 1..Len(cs) :
                LET b == NthPosition("[Chunk ", p, k)
                IN ev < b /\ b < qu /\ p[b + 3] = cs[k].file_path /\ p[b + 11] = cs[k].text
          /\ (hist > 0) <=> (h # << >> /\ cfg.enable_history_setting # <<FALSE>>)
          /\ Cardinality(Positions("\n[Previous Query ", p)) = IF hist > 0 THEN Len(h) ELSE 0
          /\ hist > 0 =>
                \A k \in 1..Len(h) :
                   LET s == NthPosition("\n[Previous Query ", p, k)
                   IN /\ hist < s /\ s < endh
                      /\ p[s + 3] = h[k].query
                      /\ SubSeq(p, s + 8, s + 7 + Len(h[k].answer)) = h[k].answer

C21_Witness ==
    /\ pc = "generate_answer"
    /\ state.is_retry
    /\ HasPreamble(state.context)
    /\ cfg.enable_history_setting = << >>
    /\ state.conversation_history = EarlierTurns
    /\ Len(state.retrieved_chunks) = 2
    /\ FirstPosition("\n\n--- CONVERSATION HISTORY ---\n", state.context) > 1

----------------------------------------------------------------------------
(* C22: within one query the embedding model and the vector search are each  *)
(* invoked at most once and embed_query and retrieve_chunks each run at most *)
(* once, however many retries are made: prepare_retry is followed by         *)
(* build_context, and from the first build_context on no step of the query   *)
(* changes the query, the embedding or the retrieved chunks.                 *)

C22_SingleEmbedAndSearch ==
    /\ [](/\ calls.embed <= 1 /\ calls.search <= 1
          /\ Cardinality(Positions("embed_query", trace)) <= 1
          /\ Cardinality(Positions("retrieve_chunks", trace)) <= 1)
    /\ [][ pc = "prepare_retry" => pc' = "build_context" ]_vars
    /\ [][ (pc \in {"build_context", "generate_answer", "judge_answer", "prepare_retry"}) =>
             (/\ state'.query = state.query
              /\ state'.query_embedding = state.query_embedding
              /\ state'.retrieved_chunks = state.retrieved_chunks)
         ]_vars

C22_Witness ==
    /\ pc = "generate_answer"
    /\ state.retry_count = MaxRetriesBound
    /\ calls.embed = 1 /\ calls.search = 1 /\ calls.generate = MaxRetriesBound
    /\ Len(state.retrieved_chunks) = 2
    /\ state.query_embedding = <<"normalized ", "embedding of ", state.query>>

----------------------------------------------------------------------------
(* C23: validate_answer leaves the answer as it found it; when validation    *)
(* has failed, query() returns, with judging disabled, the answer followed   *)
(* by the note that carries the validation message and, with judging         *)
(* enabled, exactly the answer finalize_answer left; in both cases the       *)
(* history stays as it was.                                                  *)

C23_ValidationFailureNote ==
    /\ [][ pc = "validate_answer" => state'.answer = state.answer ]_vars
    /\ [][ (pc = "END" /\ pc' = "idle" /\ ~state.validation_passed) =>
             (/\ returned' =
                   IF cfg.judge_enabled THEN state.answer
                   ELSE state.answer \o <<"\n\n[Validation Note: ">>
                        \o state.validation_message \o <<"]">>
              /\ conversation_history' = conversation_history)
         ]_vars

C23_Witness ==
    /\ Returned
    /\ cfg.judge_enabled
    /\ ~state.validation_passed
    /\ state.error = None
    /\ state.validation_message =
          <<"Validation issues: ", "Answer lacks specific file:line citations">>
    /\ returned = <<"ans_long_plain">> \o MediumConfidenceMessage
    /\ conversation_history = << >>

----------------------------------------------------------------------------
(* C24: when validation.require_citations is false and error is not set,     *)
(* validate_answer sets validation_passed to true for every answer, whatever *)
(* its length and whatever min_answer_length and check_grounding are.        *)

C24_ValidationDisabledPasses ==
    (/\ pc \in {"END", "idle"}
     /\ Positions("validate_answer", trace) # {}
     /\ cfg.validation.require_citations = <<FALSE>>
     /\ state.error = None)
    => /\ state.validation_passed
       /\ state.validation_message = <<"Validation disabled in config">>

C24_Witness ==
    /\ pc = "END"
    /\ ~cfg.judge_enabled
    /\ cfg.validation =
          [require_citations |-> <<FALSE>>, min_answer_length |-> <<200>>,
           check_grounding |-> << >>]
    /\ state.error = None
    /\ state.answer = << >>
    /\ state.validation_passed

----------------------------------------------------------------------------
(* C25: the length check (min_answer_length 0) and the grounding heuristic   *)
(* (check_grounding false) are disabled each on its own: with                *)
(* require_citations on, validation reports exactly the issues of the checks *)
(* that are enabled and fails exactly when there is one. With                *)
(* require_citations false no check is in force.                             *)

\* The claim as made: each check is in force exactly when it is itself enabled,
\* the length and grounding checks also when require_citations is false.
C25_EachCheckOnItsOwn ==
    ChecksRan =>
       LET v == cfg.validation
           a == state.answer
           min_length == IF v.min_answer_length = << >> THEN 50 ELSE v.min_answer_length[1]
           lacks == v.require_citations # <<FALSE>> /\ ~HasCitation(a)
           short == TextLen(a) < min_length
           ungrounded == /\ v.check_grounding # <<FALSE>>
                         /\ TextLen(a) < 100 /\ ~HasCitation(a) /\ ~HasHedge(a)
       IN state.validation_passed <=> ~(lacks \/ short \/ ungrounded)

C25_ChecksUnderCitationSwitch ==
    ChecksRan =>
       LET v == cfg.validation
           a == state.answer
           msg == state.validation_message
           min_length == IF v.min_answer_length = << >> THEN 50 ELSE v.min_answer_length[1]
           lacks == ~HasCitation(a)
           short == TextLen(a) < min_length
           ungrounded == /\ v.check_grounding # <<FALSE>>
                         /\ TextLen(a) < 100 /\ ~HasCitation(a) /\ ~HasHedge(a)
       IN IF v.require_citations = <<FALSE>>
          THEN state.validation_passed
          ELSE /\ state.validation_passed <=> ~(lacks \/ short \/ ungrounded)
               /\ Mentions(msg, "Answer lacks specific file:line citations") <=> lacks
               /\ Mentions(msg, "Answer too short") <=> short
               /\ Mentions(msg, "Answer may not be properly grounded") <=> ungrounded

C25_Witness ==
    /\ pc = "END"
    /\ cfg.validation =
          [require_citations |-> << >>, min_answer_length |-> << >>,
           check_grounding |-> <<FALSE>>]
    /\ state.error = None
    /\ state.answer = <<"ans_plain">>
    /\ ~state.validation_passed
    /\ state.validation_message =
          <<"Validation issues: ", "Answer lacks specific file:line citations", "; ",
            "Answer too short">>

----------------------------------------------------------------------------
(* C26: running validate_answer again on the state it left, with answer,     *)
(* error and configuration unchanged, gives the same validation_passed and   *)
(* the same validation_message and leaves the answer as it is.               *)

C26_ValidateIdempotent ==
    [][ (pc = "END" /\ pc' = "END") =>
          (/\ state'.validation_passed = state.validation_passed
           /\ state'.validation_message = state.validation_message
           /\ state'.answer = state.answer)
      ]_vars

C26_Witness ==
    /\ pc = "END"
    /\ Cardinality(Positions("validate_answer", trace)) = 2
    /\ cfg.judge_enabled
    /\ state.answer = <<"ans_cited_short">> \o MediumConfidenceMessage
    /\ state.validation_passed
    /\ state.validation_message = <<"Answer passed all validation checks">>

----------------------------------------------------------------------------
(* C27: the nodes a query runs are, in this order, embed_query,              *)
(* retrieve_chunks, build_context, generate_answer, then with judging        *)
(* enabled judge_answer, for each retry prepare_retry, build_context,        *)
(* generate_answer and judge_answer, and finalize_answer, then               *)
(* validate_answer, after which the graph has ended. validate_answer runs    *)
(* exactly once and last on every path, finalize_answer exactly once and     *)
(* right before it with judging enabled and never with judging disabled.     *)

C27_StagesInOrder ==
    /\ (pc \notin {"idle", "END"}) =>
          IsPrefix(Append(trace, pc),
                   StagePath(cfg.judge_enabled,
                             state.retry_count + (IF pc = "prepare_retry" THEN 1 ELSE 0)))
    /\ (pc = "END" \/ Returned) =>
          /\ trace = StagePath(cfg.judge_enabled, state.retry_count)
          /\ Positions("validate_answer", trace) = {Len(trace)}
          /\ Positions("finalize_answer", trace) =
                IF cfg.judge_enabled THEN {Len(trace) - 1} ELSE {}

C27_Witness ==
    /\ Returned
    /\ Truthy(state.error)
    /\ cfg.judge_enabled
    /\ trace = <<"embed_query", "retrieve_chunks", "build_context", "generate_answer",
                 "judge_answer", "prepare_retry", "build_context", "generate_answer",
                 "judge_answer", "finalize_answer", "validate_answer">>

----------------------------------------------------------------------------
(* C28: provided every node that has been reached finishes (its external     *)
(* call returns or raises), every query that has been started returns,       *)
(* after at most 7 + 4 * max_retries node steps, whatever the judge scores.  *)

C28_QueryTerminates ==
    /\ [](Len(trace) <= 7 + 4 * cfg.max_retries)
    /\ (pc # "idle") ~> (pc = "idle")

C28_Witness ==
    /\ Returned
    /\ cfg.max_retries = MaxRetriesBound
    /\ all_low
    /\ state.retry_count = MaxRetriesBound
    /\ Len(trace) = 7 + 4 * MaxRetriesBound

----------------------------------------------------------------------------
(* C29: what a query hands to its caller holds the answer text and, by name, *)
(* the judge score of the last attempt when judging is enabled (in the       *)
(* result, or through the accessor get_last_judge_score the command line     *)
(* calls) and whether the turn was eligible for the history.                 *)

C29_ResultCarriesScoreAndEligibility ==
    Returned =>
       LET result == QueryResult(state, cfg)
       IN /\ result.answer = returned
          /\ cfg.judge_enabled =>
                \/ "judge_score" \in DOMAIN result
                \/ "get_last_judge_score" \in RAGPipelineAttributes
          /\ "validation_passed" \in DOMAIN result

----------------------------------------------------------------------------
(* C30: when the search has returned, retrieved_chunks holds, in the order   *)
(* of the search result, one chunk for each hit whose index is a position of *)
(* the repository (0 <= index < number of loaded chunks) and whose score     *)
(* reaches min_score, and nothing else: each is the repository chunk at the  *)
(* hit's index with the hit's similarity as its score, and there are at most *)
(* top_k of them. A hit with a negative index or an index past the end gives *)
(* no chunk.                                                                 *)

C30_ChunksAreTheHits ==
    (/\ Positions("retrieve_chunks", trace) # {}
     /\ calls.search = 1
     /\ ~IsPrefix(<<"Error retrieving chunks: ">>, state.error))
    => LET rc == state.retrieved_chunks
           min_score == IF cfg.min_score_setting = << >> THEN 3
                        ELSE cfg.min_score_setting[1]
           kept == { i \in 1..Len(search_hits) :
                       /\ search_hits[i].idx >= 0
                       /\ search_hits[i].idx < Len(chunks)
                       /\ search_hits[i].score >= min_score }
           NthKept(j) == CHOOSE i \in kept : Cardinality({ x \in kept : x < i }) = j - 1
       IN /\ Len(rc) <= cfg.top_k
          /\ Len(rc) = Cardinality(kept)
          /\ \A j \in 1..Len(rc) :
                LET hit == search_hits[NthKept(j)]
                    stored == chunks[hit.idx + 1]
                IN /\ rc[j].score = hit.score
                   /\ rc[j].text = stored.text
                   /\ rc[j].file_path = stored.file_path
                   /\ rc[j].start_line = stored.start_line
                   /\ rc[j].end_line = stored.end_line
                   /\ rc[j].keys = stored.keys \cup {"score"}

C30_Witness ==
    /\ pc = "build_context"
    /\ search_hits = <<[idx |-> 1, score |-> 4], [idx |-> Len(chunks), score |-> 4]>>
    /\ Len(state.retrieved_chunks) = 1
    /\ state.retrieved_chunks[1].text = "chunk1"
    /\ state.retrieved_chunks[1].score = 4

----------------------------------------------------------------------------
(* C31: queries leave the loaded repository as it was loaded: no step of a   *)
(* query changes the chunk list, no chunk of it has a score field, and a     *)
(* query that has not searched yet holds no chunk (and so no score) of an    *)
(* earlier query; the chunks a search has put in the state carry a score.    *)

C31_RepositoryUnchanged ==
    /\ chunks = Repository
    /\ \A i \in 1..Len(chunks) : "score" \notin chunks[i].keys
    /\ pc \in {"embed_query", "retrieve_chunks"} => state.retrieved_chunks = << >>
    /\ \A i \in 1..Len(state.retrieved_chunks) :
          "score" \in state.retrieved_chunks[i].keys

C31_Witness ==
    /\ nqueries = 2
    /\ pc = "build_context"
    /\ Len(conversation_history) = 1
    /\ Len(state.retrieved_chunks) = 2
    /\ state.retrieved_chunks[1].score = 4
    /\ chunks = Repository

----------------------------------------------------------------------------
(* C32: when index_repository has completed with at least one chunk, the     *)
(* index file holds as many vectors as the metadata file holds records, one  *)
(* line per chunk, the i-th vector is the normalized embedding of the text   *)
(* of the i-th record, and a pipeline constructed from the two files holds   *)
(* the records in that order: chunk i of its list is the record of vector i. *)

C32_VectorsMatchRecords ==
    indexer.pc = "done" =>
       LET lines == ReadLines(disk.metadata)
       IN /\ indexer.chunks # << >>
          /\ disk.index_exists /\ disk.metadata_exists
          /\ Len(lines) = Len(indexer.chunks)
          /\ Len(disk.index) = Len(lines)
          /\ \A i \in 1..Len(lines) :
                /\ WellFormed(lines[i])
                /\ JsonLoads(lines[i]) = indexer.chunks[i]
                /\ disk.index[i] = Normalize(Encode(JsonLoads(lines[i]).text))
          /\ pc # "load_failed"
          /\ pc = "idle" =>
                /\ index = disk.index
                /\ Len(chunks) = Len(index)
                /\ \A i \in 1..Len(chunks) :
                      /\ chunks[i] = indexer.chunks[i]
                      /\ index[i] = Normalize(Encode(chunks[i].text))

C32_Witness ==
    /\ indexer.pc = "done"
    /\ pc = "idle"
    /\ Len(indexer.files) = MaxFiles
    /\ Len(chunks) = ManyChunks + 2
    /\ chunks[ManyChunks + 1].file_path = FilePath(MaxFiles)
    /\ Positions("\n", chunks[ManyChunks].text) # {}
    /\ index[ManyChunks + 2] = Normalize(Encode(chunks[ManyChunks + 2].text))

----------------------------------------------------------------------------
(* C33: when query() has appended the turn of its call to the history, the   *)
(* answer of that turn is the text the call returned, with the confidence    *)
(* annotation finalize_answer added when it added one, and the query of the  *)
(* turn is the question the call was given.                                  *)

C33_StoredTurnIsWhatWasReturned ==
    (/\ Returned
     /\ state.validation_passed /\ ~Truthy(state.error)
     /\ conversation_history # << >>)
    => /\ conversation_history[Len(conversation_history)].answer = returned
       /\ conversation_history[Len(conversation_history)].query = QueryText(nqueries)
       /\ state.query = QueryText(nqueries)

C33_Witness ==
    /\ Returned
    /\ nqueries = 2
    /\ cfg.judge_enabled
    /\ state.judge_score = <<4>>
    /\ returned = <<"ans_cited">> \o MediumConfidenceMessage
    /\ Len(conversation_history) = 2
    /\ conversation_history[2] = [query |-> "q2", answer |-> returned]

----------------------------------------------------------------------------
(* C34: when validate_answer has run with no error set, validation_passed is *)
(* true exactly when require_citations is off, or the answer holds a         *)
(* citation and is at least min_answer_length long, whatever check_grounding *)
(* is; the grounding issue is reported only where validation fails for the   *)
(* missing citation as well.                                                 *)

C34_GroundingNeverDecides ==
    ChecksRan =>
       /\ state.validation_passed <=>
             \/ ~ConfigGet(cfg.validation.require_citations, TRUE)
             \/ /\ HasCitation(state.answer)
                /\ TextLen(state.answer)
                      >= ConfigGet(cfg.validation.min_answer_length, DefaultMinAnswerLength)
       /\ Mentions(state.validation_message, "Answer may not be properly grounded")
          => /\ ~state.validation_passed
             /\ Mentions(state.validation_message,
                         "Answer lacks specific file:line citations")
             /\ ConfigGet(cfg.validation.check_grounding, TRUE)

C34_Witness ==
    /\ ChecksRan
    /\ cfg.validation.check_grounding = << >>
    /\ cfg.validation.min_answer_length = <<0>>
    /\ state.answer = <<"ans_plain">>
    /\ ~state.validation_passed
    /\ Mentions(state.validation_message, "Answer may not be properly grounded")
    /\ ~Mentions(state.validation_message, "Answer too short")

----------------------------------------------------------------------------
(* C35: with require_citations on, an answer that finalize_answer replaced   *)
(* by the cannot-help message fails validation, its turn is not appended to  *)
(* the history, and so no turn of the session history, no turn of a query's  *)
(* copy of it and no prompt holds the cannot-help message.                   *)

C35_RefusalNeverInHistory ==
    cfg.require_citations =>
       /\ (pc \in {"END", "idle"} /\ state.answer = CannotHelpMessage)
          => ~state.validation_passed
       /\ \A i \in 1..Len(conversation_history) :
             ~Mentions(conversation_history[i].answer, CannotHelpMessage[1])
       /\ \A i \in 1..Len(state.conversation_history) :
             ~Mentions(state.conversation_history[i].answer, CannotHelpMessage[1])
       /\ ~Mentions(state.context, CannotHelpMessage[1])

C35_Witness ==
    /\ cfg.require_citations
    /\ nqueries = 2
    /\ Returned
    /\ returned = CannotHelpMessage
    /\ ~state.validation_passed
    /\ Len(state.context) > 0
    /\ Len(conversation_history) = 1
    /\ conversation_history[1].query = "q1"

----------------------------------------------------------------------------
(* C36: with judging enabled and the default thresholds (high 5, medium 3),  *)
(* no answer in the state and no returned answer holds the "Very low         *)
(* confidence" warning, whatever max_retries is and whatever the judge       *)
(* answers: when the graph is past finalize_answer with a final score below  *)
(* 3, the answer is the cannot-help message.                                 *)

----------------------------------------------------------------------------
(* C37: the prompt build_context assembles for a retry whose judge feedback  *)
(* is None or the empty text holds no feedback preamble and is the prompt of *)
(* the first attempt, token for token, also when an earlier retry of the     *)
(* same query had feedback.                                                  *)

C37_RetryWithoutFeedbackRepeatsPrompt ==
    (/\ pc = "generate_answer"
     /\ state.is_retry
     /\ state.judge_feedback \in {None, << >>})
    => /\ ~HasPreamble(state.context)
       /\ state.context = FirstAttempt(cfg, Returns(<<"ans_plain">>)).context
       /\ state.context # << >>

C37_Witness ==
    /\ pc = "generate_answer"
    /\ state.is_retry
    /\ state.retry_count = 2
    /\ state.judge_score = <<1>>
    /\ state.judge_feedback = << >>
    /\ ~HasPreamble(state.context)
    /\ Mentions(state.context, "chunk0")

----------------------------------------------------------------------------
(* C38: when a query that made at least one retry returns and the judge      *)
(* scored its last attempt above 2, the returned answer is the text the      *)
(* language model gave at the last attempt followed by the annotation of the *)
(* last score (none from the high threshold on, the medium note from the     *)
(* medium threshold on, the warning below it), the state holds the last      *)
(* score, and the turn appended to the history, when one is, holds that      *)
(* returned answer; nothing of the first attempt is in it.                   *)

C38_LastAttemptIsFinal ==
    LET n == state.retry_count + 1
        last == script.llm[n]
        first == script.llm[1]
        score == EvaluateAnswer(script.judge[n]).score
        note == IF score >= cfg.high THEN << >>
                ELSE IF score >= cfg.medium THEN MediumConfidenceMessage
                ELSE LowConfidenceMessage
    IN (/\ Returned /\ state.retry_count >= 1
        /\ ~last.raised /\ score > 2)
       => /\ calls.generate = n /\ calls.judge = n
          /\ state.judge_score = <<score>>
          /\ returned = last.value \o note
          /\ (~first.raised /\ first.value # last.value)
             => ~Mentions(returned, first.value[1])
          /\ conversation_history # << >>
             => conversation_history = << [query |-> state.query, answer |-> returned] >>
          /\ (conversation_history # << >>) <=> state.validation_passed

C38_Witness ==
    /\ Returned
    /\ state.retry_count = 1
    /\ cfg.max_retries = 2
    /\ script.llm[1] = Returns(<<"ans_plain">>)
    /\ script.llm[2] = Returns(<<"ans_cited">>)
    /\ EvaluateAnswer(script.judge[1]).score = 2
    /\ EvaluateAnswer(script.judge[2]).score = 3
    /\ cfg.medium = 3
    /\ returned = <<"ans_cited">> \o MediumConfidenceMessage
    /\ conversation_history = << [query |-> "q1", answer |-> returned] >>

----------------------------------------------------------------------------
(* C39: once clear_history has been called, the session history holds only   *)
(* turns of queries started after the call (it is empty until one of them    *)
(* returns), and so do the history copy and the prompt of every query        *)
(* started after the call: no question asked before the call occurs in them; *)
(* the call itself changes the history and nothing else of the session       *)
(* (configuration, chunks, index, the state and result of the last query).   *)

C39_ClearedTurnsAreGone ==
    /\ [](/\ \A i \in 1..Len(conversation_history) :
                QueryIndex(conversation_history[i].query) > cleared_at
          /\ nqueries > cleared_at =>
                /\ \A i \in 1..Len(state.conversation_history) :
                      QueryIndex(state.conversation_history[i].query) > cleared_at
                /\ \A k \in 1..cleared_at : ~Mentions(state.context, QueryText(k))
          /\ (pc = "idle" /\ nqueries = cleared_at) => conversation_history = << >>)
    /\ [][ cleared_at' # cleared_at =>
             /\ conversation_history' = << >>
             /\ UNCHANGED <<cfg, chunks, index, pc, state, returned, calls, nqueries,
                            indexer, disk>>
         ]_vars

C39_Witness ==
    /\ cleared_at = 1
    /\ nqueries = 2
    /\ pc = "generate_answer"
    /\ state.query = "q2"
    /\ state.conversation_history = << >>
    /\ state.context # << >>
    /\ ~Mentions(state.context, "q1")
    /\ snapshot.held /\ Len(snapshot.turns) = 1 /\ snapshot.turns[1].query = "q1"

====
